---- MODULE Spec2Model ----
(***************************************************************************)
(* The page-snapshot extension: the in-page capture pipeline               *)
(* (capturePageSnapshot of extension/background.js), its Resource Fetcher  *)
(* (fetchAsDataUrl) and its Style Resolver (processCssUrls).               *)
(*                                                                         *)
(* The capture is an async function: every action below is one turn of     *)
(* the page's event loop, from one await (or the call) to the next.  The   *)
(* network, the live DOM and the timers are the environment: what they     *)
(* answer is chosen when the code reads it.                                *)
(*                                                                         *)
(* Beside the pipeline, each under a specification of its own: the         *)
(* transport codec (compressString of the extension, decompressHtml of     *)
(* the store), the snapshot store (handleUpload, handleServe and           *)
(* parseExpiration of the worker), the popup with the background's         *)
(* message listener and handleCapture, and the concurrent passes over the  *)
(* images of the clone.                                                    *)
(***************************************************************************)
EXTENDS Integers, Sequences, FiniteSets, TLC

VARIABLES
  pc,        \* where the body of capturePageSnapshot stands
  promise,   \* the promise capturePageSnapshot returned
  result,    \* the value that promise was fulfilled with
  caught,    \* the exception that reached the outermost catch, if any
  started,   \* the sequential stages that have begun
  finished,  \* the sequential stages that have ended
  task,      \* the position of every concurrent sub-task
  fx,        \* per sub-task: its call of fetchAsDataUrl
  liveImg,   \* the properties of the live image element the capture touches
  clone,     \* the detached clone (tempDoc)
  cssIn,     \* Style Resolver harness: the style text handed to processCssUrls
  cssUrls,   \* ... uniqueUrls: the URLs handed to fetchAsDataUrl, one call each
  cssWait,   \* ... the calls in flight, by their index in uniqueUrls
  cssSets,   \* ... the keys of the urlMap.set calls, in the order they ran
  cssOk,     \* ... urlMap: the URLs whose fetch succeeded, in insertion order
  cssOut,    \* ... the text processCssUrls returned
  cssPc,     \* ... "input" before the call, "done" after it
  impGraph,  \* import harness: the rules of every style sheet
  impStack,  \* ... the calls of processStyleSheet that have not returned
  impRead,   \* ... the depths at which a rule of a sheet was read
  impCut,    \* ... what the calls beyond the depth bound returned
  impOut,    \* ... the text the outermost call returned
  impPc,     \* ... "input" before the call, "done" after it
  aggSrc,    \* aggregation harness: the style sources of the live document
  aggSlots,  \* ... cssPromises: one entry per pushed promise
  aggEarly,  \* ... whether a promise settled before one pushed earlier
  aggOut,    \* ... the text getAllStylesheetCSS returned
  aggPc,     \* ... "input" before the call, "done" after it
  domLive,   \* document harness: the elements of the live document
  domDoc,    \* ... the elements of the clone (tempDoc)
  domHtml,   \* ... the serialized clone
  domBorn,   \* ... per live element: its position in the live document when
             \*     the clone was taken, 0 when it was inserted later
  domPc,     \* ... the statement of the body that runs next
  zipIn,     \* codec harness: the text handed to compressString
  zipWire,   \* ... the text compressString returned (the "html" of the upload)
  zipOut,    \* ... what decompressHtml made of it
  zipPc,     \* ... "input", "sent", "received"
  srvNow,    \* store harness: the store's clock, in milliseconds
  snapshots, \* ... env.SNAPSHOTS: the entry under every identifier
  issued,    \* ... the identifiers generateId has returned so far
  upReq,     \* ... the call of handleUpload that has not returned
  upDone,    \* ... the last response of handleUpload
  lastOk,    \* ... the last upload answered with 200
  getReq,    \* ... the call of handleServe that has not returned
  served,    \* ... the responses of handleServe since that upload
  view,      \* popup harness: the view showView made visible
  disabled,  \* ... captureBtn.disabled
  histWait,  \* ... the history handlers awaiting getHistory
  runs,      \* ... the calls of captureCurrentPage, in the order they began
  msgs,      \* ... per call: the 'capture' message and its handleCapture
  picLive,   \* image harness: the img elements of the live document
  picClone,  \* ... the img elements of the clone (tempDoc)
  picTask,   \* ... the position of every callback of processImages
  picWrites  \* ... the writes so far: location and the callback that wrote

capVars == <<pc, promise, result, caught, started, finished, task, fx, liveImg, clone>>
cssVars == <<cssIn, cssUrls, cssWait, cssSets, cssOk, cssOut, cssPc>>
impVars == <<impGraph, impStack, impRead, impCut, impOut, impPc>>
aggVars == <<aggSrc, aggSlots, aggEarly, aggOut, aggPc>>
domVars == <<domLive, domDoc, domHtml, domBorn, domPc>>
zipVars == <<zipIn, zipWire, zipOut, zipPc>>
srvVars == <<srvNow, snapshots, issued, upReq, upDone, lastOk, getReq, served>>
popVars == <<view, disabled, histWait, runs, msgs>>
picVars == <<picLive, picClone, picTask, picWrites>>
notCapVars == <<cssVars, impVars, aggVars, domVars, zipVars, srvVars, popVars, picVars>>
notCssVars == <<capVars, impVars, aggVars, domVars, zipVars, srvVars, popVars, picVars>>
notImpVars == <<capVars, cssVars, aggVars, domVars, zipVars, srvVars, popVars, picVars>>
notAggVars == <<capVars, cssVars, impVars, domVars, zipVars, srvVars, popVars, picVars>>
notDomVars == <<capVars, cssVars, impVars, aggVars, zipVars, srvVars, popVars, picVars>>
pageVars == <<capVars, cssVars, impVars, aggVars, domVars>>
notZipVars == <<pageVars, srvVars, popVars, picVars>>
notSrvVars == <<pageVars, zipVars, popVars, picVars>>
notPopVars == <<pageVars, zipVars, srvVars, picVars>>
notPicVars == <<pageVars, zipVars, srvVars, popVars>>
vars == <<pc, promise, result, caught, started, finished, task, fx, liveImg, clone,
          cssIn, cssUrls, cssWait, cssSets, cssOk, cssOut, cssPc,
          impGraph, impStack, impRead, impCut, impOut, impPc,
          aggSrc, aggSlots, aggEarly, aggOut, aggPc,
          domLive, domDoc, domHtml, domBorn, domPc,
          zipIn, zipWire, zipOut, zipPc,
          srvNow, snapshots, issued, upReq, upDone, lastOk, getReq, served,
          view, disabled, histWait, runs, msgs,
          picLive, picClone, picTask, picWrites>>

(***************************************************************************)
(* Values                                                                  *)
(***************************************************************************)

\* fetchAsDataUrl's "Unavailable"
Null == "null"

\* no exception
NoError == "none"

\* error.message of an exception a stage can raise: empty, or a text
Messages == {"", "boom"}

\* the promise is still pending: no CaptureResult yet
NoResult == [pending |-> TRUE]

\* the sub-tasks: one style sheet of document.styleSheets, one inline style
\* element, and in each of the three concurrent passes one element
StyleTasks == {"sheet", "style"}
PassTasks == {"img", "bg", "svg"}
Tasks == StyleTasks \cup PassTasks

\* what a url reference resolves to: a malformed URL, a URL whose absolute
\* form is an inline data: URL, or a URL that needs the network
UrlKinds == {"malformed", "inline", "remote"}

\* a piece of style text: without url(), with a literal data: reference, or
\* with a reference of one of the UrlKinds
RefKinds == {"none", "data"} \cup UrlKinds

(***************************************************************************)
(* CaptureResult                                                           *)
(***************************************************************************)

\* '<!DOCTYPE html>\n' + tempDoc.documentElement.outerHTML
Serialize(doc) == [doctype |-> "<!DOCTYPE html>", root |-> doc]

SuccessResult(doc) ==
  [success |-> TRUE, html |-> Serialize(doc), title |-> "document.title",
   sourceUrl |-> "location.href"]

FailureResultNoFallback(msg) == [success |-> FALSE, error |-> msg]

\* error.message || 'Capture failed'
FailureResult(msg) ==
  [success |-> FALSE, error |-> IF msg = "" THEN "Capture failed" ELSE msg]

OnExceptionRethrow(msg) == [promise |-> "rejected", result |-> NoResult]

\* the outermost catch of capturePageSnapshot
OnException(msg) == [promise |-> "fulfilled", result |-> FailureResult(msg)]

(***************************************************************************)
(* The order of the stages in the body of capturePageSnapshot              *)
(***************************************************************************)

NextStageFramesFirst(s) ==
  CASE s = "styles" -> "clone"
    [] s = "clone" -> "sanitize"
    [] s = "sanitize" -> "launch"
    [] s = "launch" -> "inline"
    [] s = "inline" -> "frames"
    [] s = "frames" -> "canvas"
    [] s = "canvas" -> "inject"
    [] s = "inject" -> "meta"
    [] s = "meta" -> "serialize"
    [] OTHER -> "done"

NextStage(s) ==
  CASE s = "styles" -> "clone"
    [] s = "clone" -> "sanitize"
    [] s = "sanitize" -> "launch"
    [] s = "launch" -> "inline"
    [] s = "inline" -> "canvas"
    [] s = "canvas" -> "frames"
    [] s = "frames" -> "inject"
    [] s = "inject" -> "meta"
    [] s = "meta" -> "serialize"
    [] OTHER -> "done"

\* the stages that run without an await
SyncStages == {"clone", "sanitize", "launch", "canvas", "frames", "inject", "meta", "serialize"}

(***************************************************************************)
(* fetchAsDataUrl: one call                                                *)
(*                                                                         *)
(* A call's record: state (where the call stands), timer (the 10 s abort   *)
(* timer), reqs (the network requests it issued), calls (how many calls    *)
(* its caller has made), result (what it returned), and ev: the last       *)
(* thing the environment did to it (the kind of URL it was given, then     *)
(* what the network, the timer or the FileReader did).                     *)
(***************************************************************************)

\* no call made yet
FxIdle ==
  [state |-> "none", timer |-> "unset", reqs |-> 0, calls |-> 0,
   result |-> "pending", ev |-> "none"]

\* the call returns r
FxReturn(f, r) == [f EXCEPT !.state = "done", !.result = r]

FetchStartNoInlineCheck(prev, kind) ==
  IF kind = "malformed"
    THEN FxReturn([FxIdle EXCEPT !.calls = prev.calls + 1, !.ev = kind], Null)
    ELSE [FxIdle EXCEPT !.calls = prev.calls + 1, !.ev = kind, !.state = "headers",
                        !.timer = "armed", !.reqs = 1]

\* from the call to the await of fetch(): new URL(url, base) throws on a
\* malformed URL (null); an absolute URL that starts with data: is returned;
\* otherwise the abort timer is armed and the one request is issued
FetchStart(prev, kind) ==
  CASE kind = "malformed" ->
         FxReturn([FxIdle EXCEPT !.calls = prev.calls + 1, !.ev = kind], Null)
    [] kind = "inline" ->
         FxReturn([FxIdle EXCEPT !.calls = prev.calls + 1, !.ev = kind], "absoluteUrl")
    [] OTHER ->
         [FxIdle EXCEPT !.calls = prev.calls + 1, !.ev = kind, !.state = "headers",
                        !.timer = "armed", !.reqs = 1]

FetchCatchRethrow(f) == [f EXCEPT !.state = "threw", !.timer = "cleared"]

\* catch (e) { clearTimeout(timeout); return null; }
FetchCatch(f) == FxReturn([f EXCEPT !.timer = "cleared"], Null)

FetchOnTimeoutNoAbort(f) == f

\* setTimeout(() => controller.abort(), 10000): the pending fetch() rejects
\* with an AbortError, which the catch turns into null
FetchOnTimeout(f) == FetchCatch(f)

\* fetch() resolved: clearTimeout, then the response.ok test
FetchOnHeaders(f, ok) ==
  IF ok THEN [f EXCEPT !.state = "body", !.timer = "cleared"]
        ELSE FxReturn([f EXCEPT !.timer = "cleared"], Null)

\* response.blob() resolved: the blob.size test, then readAsDataURL
FetchOnBody(f, size) ==
  IF size = 0 THEN FxReturn(f, Null) ELSE [f EXCEPT !.state = "read"]

\* the FileReader ended: onerror resolves null, onloadend resolves reader.result
FetchOnRead(f, ok) ==
  IF ok THEN FxReturn(f, "data") ELSE FxReturn(f, Null)

(***************************************************************************)
(* The sub-tasks: what each does from its call to its first await          *)
(***************************************************************************)

\* processCssUrls from its call to the await of Promise.all: no url() match
\* returns the text; only references that are neither data: nor #... are
\* handed to fetchAsDataUrl
CssStart(prev, ref) ==
  IF ref \in {"none", "data"}
    THEN [at |-> "fulfilled", fx |-> prev]
    ELSE [at |-> "fetching", fx |-> FetchStart(prev, ref)]

\* processStyleSheet: a readable sheet goes to processCssUrls, a blocked one
\* with an href to fetch(sheet.href), a blocked one without href returns ''
SheetStart(sh) ==
  IF ~sh.blocked THEN CssStart(FxIdle, sh.ref)
  ELSE IF sh.href THEN [at |-> "rawfetch", fx |-> FxIdle]
  ELSE [at |-> "fulfilled", fx |-> FxIdle]

\* getAllStylesheetCSS, second loop: a style element with text goes to
\* processCssUrls
StyleStart(present, ref) ==
  IF present THEN CssStart(FxIdle, ref) ELSE [at |-> "fulfilled", fx |-> FxIdle]

\* what the page's image element holds before the capture
LiveImgAtStart == [onload |-> "page", onerror |-> "page"]

\* img.onload = img.onerror = r
LiveImgAwaited == [onload |-> "capture", onerror |-> "capture"]

\* imageToDataUrl after the wait: no decoded dimensions, or a tainted canvas,
\* falls back to one fetch of originalSrc; otherwise the pixels are re-encoded
ImgDecide(prev, nw0, tainted, kind) ==
  IF nw0 \/ tainted
    THEN [at |-> "fetchLive", fx |-> FetchStart(prev, kind), src |-> "attr"]
    ELSE [at |-> "fulfilled", fx |-> prev, src |-> "reencoded"]

\* one task of processImages, with imageToDataUrl, up to its first await
ImgStart(sh) ==
  IF sh.src # "url" THEN [at |-> "fulfilled", fx |-> FxIdle, src |-> "attr", live |-> LiveImgAtStart]
  ELSE IF ~sh.found
    THEN [at |-> "fetchDirect", fx |-> FetchStart(FxIdle, sh.kind), src |-> "attr",
          live |-> LiveImgAtStart]
  ELSE IF ~sh.complete
    THEN [at |-> "waitload", fx |-> FxIdle, src |-> "attr", live |-> LiveImgAwaited]
  ELSE [at |-> ImgDecide(FxIdle, sh.nw0, sh.tainted, sh.kind).at,
        fx |-> ImgDecide(FxIdle, sh.nw0, sh.tainted, sh.kind).fx,
        src |-> ImgDecide(FxIdle, sh.nw0, sh.tainted, sh.kind).src,
        live |-> LiveImgAtStart]

\* one task of processSvgImages up to its await
SvgStart(ref) ==
  IF ref \in {"none", "data"}
    THEN [at |-> "fulfilled", fx |-> FxIdle]
    ELSE [at |-> "fetching", fx |-> FetchStart(FxIdle, ref)]

SheetShapes == [blocked : BOOLEAN, href : BOOLEAN, ref : RefKinds]

ImgShapes ==
  [src : {"none", "data", "url"}, found : BOOLEAN, complete : BOOLEAN,
   nw0 : BOOLEAN, tainted : BOOLEAN, kind : UrlKinds]

\* document.documentElement.cloneNode(true), moved into tempDoc
NoClone == [exists |-> FALSE]

NewClone ==
  [exists |-> TRUE, sanitized |-> FALSE, imgSrc |-> "attr", imgHints |-> TRUE,
   bgStyle |-> "attr", svgHref |-> "attr", canvas |-> "canvas", frame |-> "src",
   styleBlock |-> FALSE, charset |-> FALSE, base |-> TRUE]

(***************************************************************************)
(* The body of capturePageSnapshot                                         *)
(***************************************************************************)

\* the capture before its call
CapIdle ==
  /\ pc = "idle"
  /\ promise = "pending"
  /\ result = NoResult
  /\ caught = NoError
  /\ started = {}
  /\ finished = {}
  /\ task = [t \in Tasks |-> "idle"]
  /\ fx = [t \in Tasks |-> FxIdle]
  /\ liveImg = LiveImgAtStart
  /\ clone = NoClone

\* no call of processCssUrls under observation
CssOff ==
  /\ cssIn = <<>>
  /\ cssUrls = <<>>
  /\ cssWait = {}
  /\ cssSets = <<>>
  /\ cssOk = <<>>
  /\ cssOut = <<>>
  /\ cssPc = "off"

\* no call of processStyleSheet under observation
ImpOff ==
  /\ impGraph = <<>>
  /\ impStack = <<>>
  /\ impRead = {}
  /\ impCut = {}
  /\ impOut = <<>>
  /\ impPc = "off"

\* no call of getAllStylesheetCSS under observation
AggOff ==
  /\ aggSrc = <<>>
  /\ aggSlots = <<>>
  /\ aggEarly = FALSE
  /\ aggOut = <<>>
  /\ aggPc = "off"

\* no document under observation
DomOff ==
  /\ domLive = <<>>
  /\ domDoc = <<>>
  /\ domHtml = <<>>
  /\ domBorn = <<>>
  /\ domPc = "off"

\* no call of compressString under observation
ZipOff ==
  /\ zipIn = <<>>
  /\ zipWire = <<>>
  /\ zipOut = <<>>
  /\ zipPc = "off"

\* no store under observation
StoreOff ==
  /\ srvNow = 0
  /\ snapshots = <<>>
  /\ issued = {}
  /\ upReq = <<>>
  /\ upDone = <<>>
  /\ lastOk = <<>>
  /\ getReq = <<>>
  /\ served = <<>>

\* no popup under observation
PopupOff ==
  /\ view = "off"
  /\ disabled = FALSE
  /\ histWait = 0
  /\ runs = <<>>
  /\ msgs = <<>>

\* no call of processImages under observation
PicOff ==
  /\ picLive = <<>>
  /\ picClone = <<>>
  /\ picTask = <<>>
  /\ picWrites = <<>>

\* nothing under observation outside the page
OutsideOff == ZipOff /\ StoreOff /\ PopupOff /\ PicOff

\* nothing under observation in the page
PageOff == CapIdle /\ CssOff /\ ImpOff /\ AggOff /\ DomOff

Init == CapIdle /\ CssOff /\ ImpOff /\ AggOff /\ DomOff /\ OutsideOff

\* the call: getAllStylesheetCSS starts one processStyleSheet per sheet and
\* one processCssUrls per style element, then awaits them all
StartCapture ==
  /\ pc = "idle"
  /\ \E sh \in SheetShapes, present \in BOOLEAN, ref \in RefKinds :
       /\ task' = [task EXCEPT !["sheet"] = SheetStart(sh).at,
                               !["style"] = StyleStart(present, ref).at]
       /\ fx' = [fx EXCEPT !["sheet"] = SheetStart(sh).fx,
                           !["style"] = StyleStart(present, ref).fx]
  /\ pc' = "styles"
  /\ started' = started \cup {"styles"}
  /\ UNCHANGED <<promise, result, caught, finished, liveImg, clone, notCapVars>>

\* await Promise.all(cssPromises) resolved: allCSS is complete
StylesResolved ==
  /\ pc = "styles"
  /\ \A t \in StyleTasks : task[t] = "fulfilled"
  /\ pc' = NextStage("styles")
  /\ finished' = finished \cup {"styles"}
  /\ UNCHANGED <<promise, result, caught, started, task, fx, liveImg, clone, notCapVars>>

\* cloneNode(true), createHTMLDocument, replaceChild
CloneDocument ==
  /\ pc = "clone"
  /\ clone' = NewClone
  /\ pc' = NextStage("clone")
  /\ started' = started \cup {"clone"}
  /\ finished' = finished \cup {"clone"}
  /\ UNCHANGED <<promise, result, caught, task, fx, liveImg, notCapVars>>

\* removeScripts(tempDoc); removeExternalResources(tempDoc)
Sanitize ==
  /\ pc = "sanitize"
  /\ clone' = IF clone.exists THEN [clone EXCEPT !.sanitized = TRUE] ELSE clone
  /\ pc' = NextStage("sanitize")
  /\ started' = started \cup {"sanitize"}
  /\ finished' = finished \cup {"sanitize"}
  /\ UNCHANGED <<promise, result, caught, task, fx, liveImg, notCapVars>>

\* Promise.all([processImages, processInlineBackgrounds, processSvgImages]):
\* each pass runs to its first await, then the body awaits them all
LaunchPasses ==
  /\ pc = "launch"
  /\ \E sh \in ImgShapes, bg \in RefKinds \ {"none"}, svg \in RefKinds :
       /\ task' = [task EXCEPT !["img"] = ImgStart(sh).at,
                               !["bg"] = CssStart(FxIdle, bg).at,
                               !["svg"] = SvgStart(svg).at]
       /\ fx' = [fx EXCEPT !["img"] = ImgStart(sh).fx,
                           !["bg"] = CssStart(FxIdle, bg).fx,
                           !["svg"] = SvgStart(svg).fx]
       /\ liveImg' = ImgStart(sh).live
       /\ clone' = IF clone.exists
                     THEN [clone EXCEPT !.imgSrc = ImgStart(sh).src,
                                        !.imgHints = ~(sh.src = "url" /\ ImgStart(sh).at = "fulfilled")]
                     ELSE clone
  /\ pc' = NextStage("launch")
  /\ UNCHANGED <<promise, result, caught, started, finished, notCapVars>>

\* await Promise.all([...]) resolved
PassesJoined ==
  /\ pc = "inline"
  /\ \A t \in PassTasks : task[t] = "fulfilled"
  /\ pc' = NextStage("inline")
  /\ UNCHANGED <<promise, result, caught, started, finished, task, fx, liveImg, clone, notCapVars>>

\* processCanvases(tempDoc): a canvas that cannot be read stays
Canvases ==
  /\ pc = "canvas"
  /\ \E readable \in BOOLEAN :
       clone' = IF clone.exists /\ readable THEN [clone EXCEPT !.canvas = "img"] ELSE clone
  /\ pc' = NextStage("canvas")
  /\ started' = started \cup {"canvas"}
  /\ finished' = finished \cup {"canvas"}
  /\ UNCHANGED <<promise, result, caught, task, fx, liveImg, notCapVars>>

\* processIframes(tempDoc): srcdoc when the live frame is readable, else a
\* placeholder
Frames ==
  /\ pc = "frames"
  /\ \E readable \in BOOLEAN :
       clone' = IF ~clone.exists THEN clone
                ELSE [clone EXCEPT !.frame = IF readable THEN "srcdoc" ELSE "placeholder"]
  /\ pc' = NextStage("frames")
  /\ started' = started \cup {"frames"}
  /\ finished' = finished \cup {"frames"}
  /\ UNCHANGED <<promise, result, caught, task, fx, liveImg, notCapVars>>

\* createElement('style'), textContent = allCSS, head.appendChild
InjectStyle ==
  /\ pc = "inject"
  /\ clone' = IF clone.exists THEN [clone EXCEPT !.styleBlock = TRUE] ELSE clone
  /\ pc' = NextStage("inject")
  /\ started' = started \cup {"inject"}
  /\ finished' = finished \cup {"inject"}
  /\ UNCHANGED <<promise, result, caught, task, fx, liveImg, notCapVars>>

\* the charset meta when there is none, and the base elements removed
AddMetadata ==
  /\ pc = "meta"
  /\ clone' = IF clone.exists THEN [clone EXCEPT !.charset = TRUE, !.base = FALSE] ELSE clone
  /\ pc' = NextStage("meta")
  /\ started' = started \cup {"meta"}
  /\ finished' = finished \cup {"meta"}
  /\ UNCHANGED <<promise, result, caught, task, fx, liveImg, notCapVars>>

\* outerHTML, and the return of the success value
SerializeAndReturn ==
  /\ pc = "serialize"
  /\ result' = SuccessResult(clone)
  /\ promise' = "fulfilled"
  /\ pc' = NextStage("serialize")
  /\ started' = started \cup {"serialize"}
  /\ finished' = finished \cup {"serialize"}
  /\ UNCHANGED <<caught, task, fx, liveImg, clone, notCapVars>>

\* a stage that runs without an await raises: the outermost catch
StageThrows ==
  /\ pc \in SyncStages
  /\ \E msg \in Messages :
       /\ caught' = msg
       /\ promise' = OnException(msg).promise
       /\ result' = OnException(msg).result
  /\ pc' = "done"
  /\ started' = started \cup {pc}
  /\ UNCHANGED <<finished, task, fx, liveImg, clone, notCapVars>>

(***************************************************************************)
(* fetchAsDataUrl: the network, the abort timer and the FileReader         *)
(***************************************************************************)

\* fetch() resolves with a response, ok or not
HeadersArrive(t) ==
  /\ fx[t].state = "headers"
  /\ \E ok \in BOOLEAN : fx' = [fx EXCEPT ![t] = [FetchOnHeaders(fx[t], ok) EXCEPT !.ev = IF ok THEN "headers" ELSE "notok"]]
  /\ UNCHANGED <<pc, promise, result, caught, started, finished, task, liveImg, clone, notCapVars>>

\* fetch() rejects: a network or CORS error
NetworkError(t) ==
  /\ fx[t].state = "headers"
  /\ fx' = [fx EXCEPT ![t] = [FetchCatch(fx[t]) EXCEPT !.ev = "neterror"]]
  /\ UNCHANGED <<pc, promise, result, caught, started, finished, task, liveImg, clone, notCapVars>>

\* the 10 s timer fires while fetch() is pending
Timeout(t) ==
  /\ fx[t].state = "headers"
  /\ fx[t].timer = "armed"
  /\ fx' = [fx EXCEPT ![t] = [FetchOnTimeout(fx[t]) EXCEPT !.ev = "timeout"]]
  /\ UNCHANGED <<pc, promise, result, caught, started, finished, task, liveImg, clone, notCapVars>>

\* response.blob() resolves, with an empty or a non-empty body
BodyArrives(t) ==
  /\ fx[t].state = "body"
  /\ \E size \in {0, 1} : fx' = [fx EXCEPT ![t] = [FetchOnBody(fx[t], size) EXCEPT !.ev = IF size = 0 THEN "empty" ELSE "body"]]
  /\ UNCHANGED <<pc, promise, result, caught, started, finished, task, liveImg, clone, notCapVars>>

\* response.blob() rejects: the body could not be read
BodyError(t) ==
  /\ fx[t].state = "body"
  /\ fx' = [fx EXCEPT ![t] = [FetchCatch(fx[t]) EXCEPT !.ev = "bodyerror"]]
  /\ UNCHANGED <<pc, promise, result, caught, started, finished, task, liveImg, clone, notCapVars>>

\* the FileReader ends, with the data URL or with an error
ReadEnds(t) ==
  /\ fx[t].state = "read"
  /\ \E ok \in BOOLEAN : fx' = [fx EXCEPT ![t] = [FetchOnRead(fx[t], ok) EXCEPT !.ev = IF ok THEN "readok" ELSE "readerror"]]
  /\ UNCHANGED <<pc, promise, result, caught, started, finished, task, liveImg, clone, notCapVars>>

(***************************************************************************)
(* The sub-tasks after their awaits                                        *)
(***************************************************************************)

\* if (dataUrl): null is the only falsy value fetchAsDataUrl returns
Truthy(r) == r # Null

ImgSrcAfterFetchNoFallback(at, r) ==
  IF Truthy(r) THEN "data" ELSE IF at = "fetchLive" THEN Null ELSE "attr"

\* return dataUrl || originalSrc (a live image), or setAttribute only
\* if (dataUrl) (no live image): the src the clone image ends with
ImgSrcAfterFetch(at, r) ==
  IF Truthy(r) THEN "data" ELSE IF at = "fetchLive" THEN "resolved" ELSE "attr"

\* processCssUrls of a sheet or a style element returned
CssFetched(t) ==
  /\ t \in StyleTasks
  /\ task[t] = "fetching"
  /\ fx[t].state = "done"
  /\ task' = [task EXCEPT ![t] = "fulfilled"]
  /\ fx' = [fx EXCEPT ![t] = FxIdle]
  /\ UNCHANGED <<pc, promise, result, caught, started, finished, liveImg, clone, notCapVars>>

\* el.setAttribute('style', await processCssUrls(style, location.href))
BgFetched ==
  /\ task["bg"] = "fetching"
  /\ fx["bg"].state = "done"
  /\ task' = [task EXCEPT !["bg"] = "fulfilled"]
  /\ clone' = IF clone.exists /\ Truthy(fx["bg"].result)
                THEN [clone EXCEPT !.bgStyle = "inlined"] ELSE clone
  /\ fx' = [fx EXCEPT !["bg"] = FxIdle]
  /\ UNCHANGED <<pc, promise, result, caught, started, finished, liveImg, notCapVars>>

\* if (dataUrl) { img.setAttribute('href', dataUrl); ... }
SvgFetched ==
  /\ task["svg"] = "fetching"
  /\ fx["svg"].state = "done"
  /\ task' = [task EXCEPT !["svg"] = "fulfilled"]
  /\ clone' = IF clone.exists /\ Truthy(fx["svg"].result)
                THEN [clone EXCEPT !.svgHref = "data"] ELSE clone
  /\ fx' = [fx EXCEPT !["svg"] = FxIdle]
  /\ UNCHANGED <<pc, promise, result, caught, started, finished, liveImg, notCapVars>>

\* the image task after its fetch: the src is set, srcset and loading go
ImgFetched ==
  /\ task["img"] \in {"fetchLive", "fetchDirect"}
  /\ fx["img"].state = "done"
  /\ task' = [task EXCEPT !["img"] = "fulfilled"]
  /\ clone' = IF clone.exists
                THEN [clone EXCEPT !.imgSrc = ImgSrcAfterFetch(task["img"], fx["img"].result),
                                   !.imgHints = FALSE]
                ELSE clone
  /\ fx' = [fx EXCEPT !["img"] = FxIdle]
  /\ UNCHANGED <<pc, promise, result, caught, started, finished, liveImg, notCapVars>>

\* the wait for a live image that was not complete ends: by the handlers the
\* capture installed on it (byTimer = FALSE) or by the 2 s timer
ImgWaitEnds(byTimer) ==
  /\ task["img"] = "waitload"
  /\ \E nw0 \in BOOLEAN, tainted \in BOOLEAN, kind \in UrlKinds :
       /\ task' = [task EXCEPT !["img"] = ImgDecide(fx["img"], nw0, tainted, kind).at]
       /\ fx' = [fx EXCEPT !["img"] = ImgDecide(fx["img"], nw0, tainted, kind).fx]
       /\ clone' = IF clone.exists /\ ImgDecide(fx["img"], nw0, tainted, kind).at = "fulfilled"
                     THEN [clone EXCEPT !.imgSrc = "reencoded", !.imgHints = FALSE]
                     ELSE clone
  /\ UNCHANGED <<pc, promise, result, caught, started, finished, liveImg, notCapVars>>

\* fetch(sheet.href, { credentials: 'include' }) settles: a response, ok or
\* not, or a rejection
RawResponds ==
  /\ task["sheet"] = "rawfetch"
  /\ \E outcome \in {"ok", "notok", "error"} :
       task' = [task EXCEPT !["sheet"] = IF outcome = "ok" THEN "rawtext" ELSE "fulfilled"]
  /\ UNCHANGED <<pc, promise, result, caught, started, finished, fx, liveImg, clone, notCapVars>>

\* response.text() settles: the text goes to processCssUrls, a rejection
\* gives ''
RawText ==
  /\ task["sheet"] = "rawtext"
  /\ \E ref \in RefKinds \cup {"error"} :
       /\ task' = [task EXCEPT !["sheet"] =
                     IF ref = "error" THEN "fulfilled" ELSE CssStart(fx["sheet"], ref).at]
       /\ fx' = [fx EXCEPT !["sheet"] =
                     IF ref = "error" THEN fx["sheet"] ELSE CssStart(fx["sheet"], ref).fx]
  /\ UNCHANGED <<pc, promise, result, caught, started, finished, liveImg, clone, notCapVars>>

\* the join the body of capturePageSnapshot is waiting at, if any
Joining(t) ==
  \/ pc = "styles" /\ t \in StyleTasks
  \/ pc = "inline" /\ t \in PassTasks

\* a sub-task that no local try/catch covers raises when it resumes: its
\* promise rejects, Promise.all rejects, and the body (if it is waiting for
\* it) resumes in the outermost catch
TaskThrows(t) ==
  /\ t \in Tasks \ {"sheet"}
  /\ \/ task[t] \in {"fetching", "fetchLive", "fetchDirect"} /\ fx[t].state = "done"
     \/ task[t] = "waitload"
  /\ task' = [task EXCEPT ![t] = "rejected"]
  /\ \E msg \in Messages :
       IF Joining(t)
         THEN /\ caught' = msg
              /\ promise' = OnException(msg).promise
              /\ result' = OnException(msg).result
              /\ pc' = "done"
         ELSE UNCHANGED <<caught, promise, result, pc>>
  /\ fx' = [fx EXCEPT ![t] = FxIdle]
  /\ UNCHANGED <<started, finished, liveImg, clone, notCapVars>>

MainStep ==
  \/ StartCapture
  \/ StylesResolved
  \/ CloneDocument
  \/ Sanitize
  \/ LaunchPasses
  \/ PassesJoined
  \/ Canvases
  \/ Frames
  \/ InjectStyle
  \/ AddMetadata
  \/ SerializeAndReturn

TaskStep ==
  \/ \E t \in StyleTasks : CssFetched(t)
  \/ BgFetched
  \/ SvgFetched
  \/ ImgFetched

Next ==
  \/ MainStep
  \/ StageThrows
  \/ TaskStep
  \/ \E t \in Tasks : TaskThrows(t)
  \/ ImgWaitEnds(FALSE)
  \/ ImgWaitEnds(TRUE)
  \/ RawResponds
  \/ RawText
  \/ \E t \in Tasks : HeadersArrive(t)
  \/ \E t \in Tasks : NetworkError(t)
  \/ \E t \in Tasks : Timeout(t)
  \/ \E t \in Tasks : BodyArrives(t)
  \/ \E t \in Tasks : BodyError(t)
  \/ \E t \in Tasks : ReadEnds(t)

Spec == Init /\ [][Next]_vars

\* what the page's event loop guarantees: a turn that is ready runs, a timer
\* that is armed fires.  What the network and the page's images do is not
\* guaranteed.
FairSpec ==
  /\ Spec
  /\ WF_vars(MainStep)
  /\ WF_vars(TaskStep)
  /\ WF_vars(ImgWaitEnds(TRUE))
  /\ \A t \in Tasks : WF_vars(ReadEnds(t))
  /\ \A t \in Tasks : WF_vars(Timeout(t))

(***************************************************************************)
(* processCssUrls on style text                                            *)
(*                                                                         *)
(* Style text is a sequence of tokens: "url(", the two quotes, the space,  *)
(* ")", the prefixes "data:" and "#", and other characters.  A URL is the  *)
(* sequence of tokens the regular expression captured.                     *)
(***************************************************************************)

\* the number of pieces a style text of the harness is made of
MaxRefs == 2

IsQuote(c) == c \in {"'", "\""}

\* [^'")]
IsUrlChar(c) == c \notin {"'", "\"", ")"}

\* how many spaces follow from position p on
RECURSIVE SpacesFrom(_, _)
SpacesFrom(s, p) ==
  IF p <= Len(s) /\ s[p] = " " THEN 1 + SpacesFrom(s, p + 1) ELSE 0

\* /url\(\s*['"]?([^'")]+?)['"]?\s*\)/ tried at position i: every way the
\* expression matches there.  k0: the spaces \s* takes, q0: whether ['"]?
\* takes a quote, g: the length of the group, q1: the closing ['"]?.
UrlMatchesAt(s, i) ==
  IF s[i] # "url(" THEN {}
  ELSE
    {m \in [k0 : 0..SpacesFrom(s, i + 1), q0 : {0, 1}, g : 1..Len(s), q1 : {0, 1}] :
       LET p1 == i + 1 + m.k0 + m.q0
           p2 == p1 + m.g
           p3 == p2 + m.q1 + SpacesFrom(s, p2 + m.q1)
       IN  /\ m.q0 = 1 => IsQuote(s[p1 - 1])
           /\ p2 - 1 <= Len(s)
           /\ \A j \in p1..(p2 - 1) : IsUrlChar(s[j])
           /\ m.q1 = 1 => p2 <= Len(s) /\ IsQuote(s[p2])
           /\ p3 <= Len(s)
           /\ s[p3] = ")"}

\* the order in which a backtracking matcher tries them: \s* and ['"]? are
\* greedy, the group is lazy
TriedBefore(m, n) ==
  \/ m.k0 > n.k0
  \/ m.k0 = n.k0 /\ m.q0 > n.q0
  \/ m.k0 = n.k0 /\ m.q0 = n.q0 /\ m.g < n.g
  \/ m.k0 = n.k0 /\ m.q0 = n.q0 /\ m.g = n.g /\ m.q1 > n.q1

\* the match the expression finds at position i: the captured URL (m[1]) and
\* the span of the whole match
UrlMatchAt(s, i) ==
  LET ms == UrlMatchesAt(s, i)
      m == CHOOSE m \in ms : \A n \in ms : n = m \/ TriedBefore(m, n)
      p1 == i + 1 + m.k0 + m.q0
      p2 == p1 + m.g
  IN  [url |-> SubSeq(s, p1, p2 - 1), from |-> i,
       to |-> p2 + m.q1 + SpacesFrom(s, p2 + m.q1)]

\* [...cssText.matchAll(urlRegex)] from position i on
RECURSIVE MatchAll(_, _)
MatchAll(s, i) ==
  IF i > Len(s) THEN <<>>
  ELSE IF UrlMatchesAt(s, i) = {} THEN MatchAll(s, i + 1)
  ELSE LET m == UrlMatchAt(s, i) IN <<m>> \o MatchAll(s, m.to + 1)

\* !u.startsWith('data:') && !u.startsWith('#')
IsFetchable(u) == u[1] \notin {"data:", "#"}

\* matches.map(m => m[1])
MatchedUrls(s) == LET ms == MatchAll(s, 1) IN [k \in 1..Len(ms) |-> ms[k].url]

\* [...new Set(q)]: the first occurrence of every value, in order
RECURSIVE Dedup(_)
Dedup(q) ==
  IF q = <<>> THEN <<>>
  ELSE LET d == Dedup(SubSeq(q, 1, Len(q) - 1))
       IN  IF \E k \in 1..Len(d) : d[k] = q[Len(q)] THEN d ELSE Append(d, q[Len(q)])

\* the same without new Set
UniqueUrlsNoSet(s) == SelectSeq(MatchedUrls(s), IsFetchable)

\* uniqueUrls: the distinct captured URLs that are neither inline nor
\* fragment-only
UniqueUrls(s) == Dedup(SelectSeq(MatchedUrls(s), IsFetchable))

\* urlMap.set(u, dataUrl): a key that is in the Map keeps its place
MapSet(m, u) == IF \E k \in 1..Len(m) : m[k] = u THEN m ELSE Append(m, u)

\* the data URL fetchAsDataUrl returns for u: "data:" and the encoded body
DataOf(u) ==
  <<"data:", CASE u = <<"a">> -> "A" [] u = <<"b">> -> "B" [] OTHER -> "X">>

\* whether pat occurs in s at position i
OccursAt(s, pat, i) ==
  /\ i + Len(pat) - 1 <= Len(s)
  /\ SubSeq(s, i, i + Len(pat) - 1) = pat

\* s.split(pat).join(rep) from position i on
RECURSIVE SplitJoin(_, _, _, _)
SplitJoin(s, pat, rep, i) ==
  IF i > Len(s) THEN <<>>
  ELSE IF OccursAt(s, pat, i) THEN rep \o SplitJoin(s, pat, rep, i + Len(pat))
  ELSE <<s[i]>> \o SplitJoin(s, pat, rep, i + 1)

\* url("<dataUrl>")
Inlined(u) == <<"url(", "\"">> \o DataOf(u) \o <<"\"", ")">>

\* the three replacements of the loop body for one entry of urlMap
RewriteOne(s, u) ==
  LET r1 == SplitJoin(s, <<"url(", "\"">> \o u \o <<"\"", ")">>, Inlined(u), 1)
      r2 == SplitJoin(r1, <<"url(", "'">> \o u \o <<"'", ")">>, Inlined(u), 1)
  IN  SplitJoin(r2, <<"url(">> \o u \o <<")">>, Inlined(u), 1)

\* for (const [originalUrl, dataUrl] of urlMap) { ... }: urlMap's entries in
\* insertion order, from entry k on
RECURSIVE RewriteAll(_, _, _)
RewriteAll(s, ok, k) ==
  IF k > Len(ok) THEN s ELSE RewriteAll(RewriteOne(s, ok[k]), ok, k + 1)

\* the pieces style text is made of in the harness: a reference written
\* bare, double-quoted, single-quoted, with spaces inside the parentheses, a
\* reference whose URL contains another reference, a fragment-only and an
\* inline reference, and text without url()
Segments ==
  { <<"url(", "a", ")">>,
    <<"url(", "b", ")">>,
    <<"url(", "\"", "a", "\"", ")">>,
    <<"url(", "'", "b", "'", ")">>,
    <<"url(", " ", "a", " ", ")">>,
    <<"url(", "url(", "a", ")", ")">>,
    <<"url(", "#", "a", ")">>,
    <<"url(", "data:", "A", ")">>,
    <<";">> }

RECURSIVE Flatten(_)
Flatten(ss) == IF ss = <<>> THEN <<>> ELSE Head(ss) \o Flatten(Tail(ss))

\* the style texts of the harness
Texts == {Flatten(ss) : ss \in UNION {[1..n -> Segments] : n \in 0..MaxRefs}}

InitCss ==
  /\ CapIdle
  /\ ImpOff
  /\ AggOff
  /\ DomOff
  /\ OutsideOff
  /\ cssIn \in Texts
  /\ cssUrls = <<>>
  /\ cssWait = {}
  /\ cssSets = <<>>
  /\ cssOk = <<>>
  /\ cssOut = <<>>
  /\ cssPc = "input"

\* the call: no match returns the text; otherwise one fetchAsDataUrl per
\* entry of uniqueUrls is started and Promise.all awaited
CssCall ==
  /\ cssPc = "input"
  /\ IF MatchAll(cssIn, 1) = <<>>
       THEN /\ cssOut' = cssIn
            /\ cssPc' = "done"
            /\ UNCHANGED <<cssUrls, cssWait>>
       ELSE /\ cssUrls' = UniqueUrls(cssIn)
            /\ cssWait' = 1..Len(cssUrls')
            /\ cssPc' = "fetching"
            /\ UNCHANGED cssOut
  /\ UNCHANGED <<cssIn, cssSets, cssOk, notCssVars>>

\* one fetchAsDataUrl returns: if (dataUrl) urlMap.set(originalUrl, dataUrl)
CssFetchSettles(i) ==
  /\ cssPc = "fetching"
  /\ i \in cssWait
  /\ cssWait' = cssWait \ {i}
  /\ \E ok \in BOOLEAN :
       /\ cssOk' = IF ok THEN MapSet(cssOk, cssUrls[i]) ELSE cssOk
       /\ cssSets' = IF ok THEN Append(cssSets, cssUrls[i]) ELSE cssSets
  /\ UNCHANGED <<cssIn, cssUrls, cssOut, cssPc, notCssVars>>

\* Promise.all resolved: the replacement loop, and the return
CssRewrite ==
  /\ cssPc = "fetching"
  /\ cssWait = {}
  /\ cssOut' = RewriteAll(cssIn, cssOk, 1)
  /\ cssPc' = "done"
  /\ UNCHANGED <<cssIn, cssUrls, cssWait, cssSets, cssOk, notCssVars>>

NextCss ==
  \/ CssCall
  \/ \E i \in cssWait : CssFetchSettles(i)
  \/ CssRewrite

SpecCss == InitCss /\ [][NextCss]_vars

(***************************************************************************)
(* processStyleSheet: the recursion over @import rules                     *)
(*                                                                         *)
(* A sheet is a list of rules; a rule is the name of the sheet it imports  *)
(* or "rule".  The sheets of this harness are readable and their rules     *)
(* hold no url(), so that processCssUrls returns their text as it is.      *)
(***************************************************************************)

\* if (depth > 5) return ''
MaxImportDepth == 5

\* the longest list of rules of a sheet of the harness
MaxRules == 2

SheetNames == {"A", "B"}

RuleLists == UNION {[1..n -> SheetNames \cup {"rule"}] : n \in 0..MaxRules}

DepthExceededOffByOne(depth) == depth > MaxImportDepth + 1

DepthExceeded(depth) == depth > MaxImportDepth

\* a call of processStyleSheet: its sheet, its depth, the rule the loop is
\* at, and cssText
ImportFrame(sheet, depth) == [sheet |-> sheet, depth |-> depth, at |-> 1, text |-> <<>>]

\* the caller resumes with the text the callee returned: cssText += ...
ResumeWith(stack, text) ==
  LET n == Len(stack) - 1
  IN  [SubSeq(stack, 1, n) EXCEPT ![n].text = @ \o text, ![n].at = @ + 1]

ImpTop == impStack[Len(impStack)]

InitImport ==
  /\ CapIdle
  /\ CssOff
  /\ AggOff
  /\ DomOff
  /\ OutsideOff
  /\ impGraph \in [SheetNames -> RuleLists]
  /\ impStack = <<>>
  /\ impRead = {}
  /\ impCut = {}
  /\ impOut = <<>>
  /\ impPc = "input"

\* cssPromises.push(processStyleSheet(sheet)) for the sheet "A"
ImpCall ==
  /\ impPc = "input"
  /\ impStack' = <<ImportFrame("A", 0)>>
  /\ impPc' = "run"
  /\ UNCHANGED <<impGraph, impRead, impCut, impOut, notImpVars>>

\* a call returns text to its caller, or to getAllStylesheetCSS
ImpReturns(text) ==
  IF Len(impStack) = 1
    THEN /\ impOut' = text
         /\ impStack' = <<>>
         /\ impPc' = "done"
    ELSE /\ impStack' = ResumeWith(impStack, text)
         /\ UNCHANGED <<impOut, impPc>>

\* the call is beyond the depth bound: return ''
ImpDepthCut ==
  /\ impPc = "run"
  /\ DepthExceeded(ImpTop.depth)
  /\ ImpReturns(<<>>)
  /\ impCut' = impCut \cup {<<>>}
  /\ UNCHANGED <<impGraph, impRead, notImpVars>>

\* the loop is at an @import rule: the imported sheet is processed one level
\* deeper
ImpEnterImport ==
  /\ impPc = "run"
  /\ ~DepthExceeded(ImpTop.depth)
  /\ ImpTop.at <= Len(impGraph[ImpTop.sheet])
  /\ impGraph[ImpTop.sheet][ImpTop.at] \in SheetNames
  /\ impStack' = Append(impStack,
                        ImportFrame(impGraph[ImpTop.sheet][ImpTop.at], ImpTop.depth + 1))
  /\ impRead' = impRead \cup {ImpTop.depth}
  /\ UNCHANGED <<impGraph, impCut, impOut, impPc, notImpVars>>

\* the loop is at another rule: cssText += rule.cssText + '\n'
ImpPlainRule ==
  /\ impPc = "run"
  /\ ~DepthExceeded(ImpTop.depth)
  /\ ImpTop.at <= Len(impGraph[ImpTop.sheet])
  /\ impGraph[ImpTop.sheet][ImpTop.at] = "rule"
  /\ impStack' = [impStack EXCEPT ![Len(impStack)].text = Append(@, ImpTop.sheet),
                                  ![Len(impStack)].at = @ + 1]
  /\ impRead' = impRead \cup {ImpTop.depth}
  /\ UNCHANGED <<impGraph, impCut, impOut, impPc, notImpVars>>

\* the loop is over: return await processCssUrls(cssText, baseUrl)
ImpLoopEnds ==
  /\ impPc = "run"
  /\ ~DepthExceeded(ImpTop.depth)
  /\ ImpTop.at > Len(impGraph[ImpTop.sheet])
  /\ ImpReturns(ImpTop.text)
  /\ UNCHANGED <<impGraph, impRead, impCut, notImpVars>>

NextImport ==
  \/ ImpCall
  \/ ImpDepthCut
  \/ ImpEnterImport
  \/ ImpPlainRule
  \/ ImpLoopEnds

SpecImport == InitImport /\ [][NextImport]_vars

\* the continuation of an await whose promise is settled runs
FairSpecImport == SpecImport /\ WF_vars(NextImport)

(***************************************************************************)
(* getAllStylesheetCSS: the promises it collects and their aggregation     *)
(*                                                                         *)
(* A style source is a link element or a style element of the live         *)
(* document.  document.styleSheets holds the sheet of every source, in     *)
(* document order.  A text is a sequence of tokens; '' is <<>>.            *)
(***************************************************************************)

\* the most style sources a document of the harness has
MaxSources == 2

\* a style element with or without text; a link whose rules can be read,
\* with or without rules; a link whose rules cannot be read; a sheet whose
\* rules cannot be read and that has no href
SourceShapes ==
  { [kind |-> "style", blocked |-> FALSE, href |-> FALSE, empty |-> FALSE],
    [kind |-> "style", blocked |-> FALSE, href |-> FALSE, empty |-> TRUE],
    [kind |-> "link", blocked |-> FALSE, href |-> TRUE, empty |-> FALSE],
    [kind |-> "link", blocked |-> FALSE, href |-> TRUE, empty |-> TRUE],
    [kind |-> "link", blocked |-> TRUE, href |-> TRUE, empty |-> FALSE],
    [kind |-> "link", blocked |-> TRUE, href |-> FALSE, empty |-> FALSE] }

\* the rules of the sheet of the i-th source, joined
RulesText(src, i) == IF src[i].empty THEN <<>> ELSE <<(<<"r1", "r2", "r3", "r4">>)[i]>>

\* style.textContent of the i-th source
ContentText(src, i) == IF src[i].empty THEN <<>> ELSE <<(<<"t1", "t2", "t3", "t4">>)[i]>>

\* what the server holds at the href of the i-th source
ServedText(i) == <<(<<"f1", "f2", "f3", "f4">>)[i]>>

\* processCssUrls(text, base) on a text: '' stays '', and the references of
\* any other text are resolved against base
ResolveCss(text, base) == IF text = <<>> THEN <<>> ELSE text \o <<base>>

\* an entry of cssPromises
Slot(i, via, at, text, base) ==
  [src |-> i, via |-> via, at |-> at, text |-> text, base |-> base,
   val |-> <<>>, fetches |-> 0, resp |-> "none", body |-> "none"]

\* processStyleSheet(sheet) up to its first await: the rules are read and
\* handed to processCssUrls; when reading them throws, fetch(sheet.href) if
\* there is an href, '' otherwise
SheetSlot(src, i) ==
  IF ~src[i].blocked
    THEN Slot(i, "sheet", "css", RulesText(src, i), IF src[i].href THEN "@href" ELSE "@page")
  ELSE IF src[i].href
    THEN [Slot(i, "sheet", "rawfetch", <<>>, "@href") EXCEPT !.fetches = 1]
  ELSE Slot(i, "sheet", "fulfilled", <<>>, "@page")

\* for (const sheet of document.styleSheets) cssPromises.push(...)
RECURSIVE SheetSlots(_, _)
SheetSlots(src, i) ==
  IF i > Len(src) THEN <<>> ELSE <<SheetSlot(src, i)>> \o SheetSlots(src, i + 1)

\* for (const style of document.querySelectorAll('style'))
\*   if (style.textContent) cssPromises.push(processCssUrls(...))
RECURSIVE StyleSlots(_, _)
StyleSlots(src, i) ==
  IF i > Len(src) THEN <<>>
  ELSE (IF src[i].kind = "style" /\ ContentText(src, i) # <<>>
          THEN <<Slot(i, "style", "css", ContentText(src, i), "@page")>>
          ELSE <<>>)
       \o StyleSlots(src, i + 1)

OnRawResponseIgnoreOk(slot, outcome) ==
  IF outcome # "error"
    THEN [slot EXCEPT !.at = "rawtext", !.resp = outcome]
    ELSE [slot EXCEPT !.at = "fulfilled", !.resp = outcome]

\* fetch(sheet.href) settled: if (response.ok) the text is read; a response
\* that is not ok, or a rejection, ends in return ''
OnRawResponse(slot, outcome) ==
  IF outcome = "ok"
    THEN [slot EXCEPT !.at = "rawtext", !.resp = outcome]
    ELSE [slot EXCEPT !.at = "fulfilled", !.resp = outcome]

\* response.text() settled: the text goes to processCssUrls with the
\* sheet's href as base; a rejection ends in return ''
OnRawText(slot, outcome, text) ==
  IF outcome = "text"
    THEN [slot EXCEPT !.at = "css", !.text = text, !.base = "@href", !.body = outcome]
    ELSE [slot EXCEPT !.at = "fulfilled", !.body = outcome]

\* processCssUrls returned: the promise of the entry is fulfilled
OnCssReturn(slot) ==
  [slot EXCEPT !.at = "fulfilled", !.val = ResolveCss(slot.text, slot.base)]

\* texts.join('\n')
RECURSIVE Join(_)
Join(texts) ==
  IF texts = <<>> THEN <<>>
  ELSE IF Len(texts) = 1 THEN texts[1]
  ELSE texts[1] \o <<"\n">> \o Join(Tail(texts))

NonEmpty(t) == t # <<>>

AggregateNoFilter(vals) == Join(vals)

\* cssTexts.filter(Boolean).join('\n')
Aggregate(vals) == Join(SelectSeq(vals, NonEmpty))

Pending(slots) == {k \in 1..Len(slots) : slots[k].at # "fulfilled"}

InitAgg ==
  /\ CapIdle
  /\ CssOff
  /\ ImpOff
  /\ DomOff
  /\ OutsideOff
  /\ aggSrc \in UNION {[1..n -> SourceShapes] : n \in 0..MaxSources}
  /\ aggSlots = <<>>
  /\ aggEarly = FALSE
  /\ aggOut = <<>>
  /\ aggPc = "input"

\* the two loops of getAllStylesheetCSS, up to await Promise.all
AggStart ==
  /\ aggPc = "input"
  /\ aggSlots' = SheetSlots(aggSrc, 1) \o StyleSlots(aggSrc, 1)
  /\ aggPc' = "waiting"
  /\ UNCHANGED <<aggSrc, aggEarly, aggOut, notAggVars>>

\* one entry moves on; aggEarly records that it settled before an entry
\* pushed earlier
AggSettle(k, slot) ==
  /\ aggSlots' = [aggSlots EXCEPT ![k] = slot]
  /\ aggEarly' = (aggEarly \/ (slot.at = "fulfilled" /\ \E j \in Pending(aggSlots) : j < k))
  /\ UNCHANGED <<aggSrc, aggOut, aggPc, notAggVars>>

AggRawResponds(k) ==
  /\ aggPc = "waiting"
  /\ aggSlots[k].at = "rawfetch"
  /\ \E outcome \in {"ok", "notok", "error"} :
       AggSettle(k, OnRawResponse(aggSlots[k], outcome))

AggRawText(k) ==
  /\ aggPc = "waiting"
  /\ aggSlots[k].at = "rawtext"
  /\ \E outcome \in {"text", "error"}, text \in {<<>>, ServedText(aggSlots[k].src)} :
       AggSettle(k, OnRawText(aggSlots[k], outcome, text))

AggCssReturns(k) ==
  /\ aggPc = "waiting"
  /\ aggSlots[k].at = "css"
  /\ AggSettle(k, OnCssReturn(aggSlots[k]))

\* Promise.all resolved with the values in the order of cssPromises
AggJoin ==
  /\ aggPc = "waiting"
  /\ Pending(aggSlots) = {}
  /\ aggOut' = Aggregate([k \in 1..Len(aggSlots) |-> aggSlots[k].val])
  /\ aggPc' = "done"
  /\ UNCHANGED <<aggSrc, aggSlots, aggEarly, notAggVars>>

NextAgg ==
  \/ AggStart
  \/ \E k \in 1..Len(aggSlots) : AggRawResponds(k)
  \/ \E k \in 1..Len(aggSlots) : AggRawText(k)
  \/ \E k \in 1..Len(aggSlots) : AggCssReturns(k)
  \/ AggJoin

SpecAgg == InitAgg /\ [][NextAgg]_vars

(***************************************************************************)
(* The clone as a document: sanitizing, canvases, frames, assembly         *)
(*                                                                         *)
(* A document is the sequence of its elements in document order.  An       *)
(* element has a tag, a place ("head" or "body"), its attributes in order  *)
(* (pairs of a name and a value, both sequences of tokens), a content      *)
(* (a canvas: "readable" or "tainted"; a live iframe: what contentDocument *)
(* gives, "none", "clean" or "script"), the live element it was cloned     *)
(* from or made from (origin, 0 for none) and, for a style element, text.  *)
(***************************************************************************)

\* the most elements a live document of the harness has
MaxElems == 2

El(tag, where, attrs, content) ==
  [tag |-> tag, where |-> where, attrs |-> attrs, content |-> content,
   origin |-> 0, text |-> <<>>]

\* a.startsWith(p)
StartsWith(v, p) == Len(v) > 0 /\ v[1] = p

HasAttr(e, name) == \E k \in 1..Len(e.attrs) : e.attrs[k][1] = name

\* e.getAttribute(name) || ''
Attr(e, name) ==
  IF HasAttr(e, name)
    THEN e.attrs[CHOOSE k \in 1..Len(e.attrs) : e.attrs[k][1] = name][2]
    ELSE <<>>

\* e.removeAttribute(name)
WithoutAttr(e, name) ==
  LET Other(a) == a[1] # name IN [e EXCEPT !.attrs = SelectSeq(e.attrs, Other)]

\* e.setAttribute(name, value) for a name the element does not have
WithAttr(e, name, value) == [e EXCEPT !.attrs = Append(@, <<name, value>>)]

\* the elements of the live documents of the harness
LiveShapes ==
  { El("script", "body", <<>>, "none"),
    El("noscript", "body", <<>>, "none"),
    El("div", "body", << <<(<<"on", "click">>), <<"js">> >> >>, "none"),
    El("a", "body", << <<(<<"href">>), <<"javascript:", "x">> >> >>, "none"),
    El("a", "body", << <<(<<"href">>), <<"https:", "x">> >> >>, "none"),
    El("link", "head", << <<(<<"rel">>), <<"stylesheet">> >> >>, "none"),
    El("link", "head", << <<(<<"rel">>), <<"alternate", " ", "stylesheet">> >> >>, "none"),
    El("link", "head", << <<(<<"rel">>), <<"preload">> >> >>, "none"),
    El("link", "head", << <<(<<"rel">>), <<"icon">> >> >>, "none"),
    El("style", "head", <<>>, "none"),
    El("style", "body", <<>>, "none"),
    El("base", "head", <<>>, "none"),
    El("meta", "head", << <<(<<"charset">>), <<"utf-8">> >> >>, "none"),
    El("canvas", "body", <<>>, "readable"),
    El("canvas", "body", <<>>, "tainted"),
    El("iframe", "body", << <<(<<"src">>), <<"u1">> >> >>, "clean"),
    El("iframe", "body", << <<(<<"src">>), <<"u2">> >> >>, "script"),
    El("iframe", "body", << <<(<<"src">>), <<"u3">> >>, <<(<<"width">>), <<"50", "%">> >> >>, "none"),
    El("iframe", "body", << <<(<<"src">>), <<"u4">> >>, <<(<<"width">>), <<"300">> >> >>, "none"),
    El("iframe", "body", <<>>, "clean") }

\* cloneNode(true): every element with its attributes; the pixels of a
\* canvas and the document of a frame are not part of the copy
CloneOf(live) ==
  [k \in 1..Len(live) |-> [live[k] EXCEPT !.origin = k, !.content = "none"]]

IsScript(e) == e.tag \in {"script", "noscript"}

\* attr.name.startsWith('on') ||
\* (attr.name === 'href' && attr.value.startsWith('javascript:'))
Dangerous(a) ==
  \/ StartsWith(a[1], "on")
  \/ a[1] = <<"href">> /\ StartsWith(a[2], "javascript:")

RemoveScriptsElementsOnly(doc) == LET NotScript(e) == ~IsScript(e) IN SelectSeq(doc, NotScript)

\* removeScripts(doc)
RemoveScripts(doc) ==
  LET NotScript(e) == ~IsScript(e)
      Harmless(a) == ~Dangerous(a)
      kept == SelectSeq(doc, NotScript)
  IN  [k \in 1..Len(kept) |-> [kept[k] EXCEPT !.attrs = SelectSeq(@, Harmless)]]

\* the rel values of the selector of removeExternalResources
RemovedRels ==
  { <<"stylesheet">>, <<"preload">>, <<"prefetch">>, <<"modulepreload">>,
    <<"preconnect">>, <<"dns-prefetch">> }

\* removeExternalResources(doc): link[rel="..."] matches a link whose rel
\* attribute is exactly that value
RemoveExternalResources(doc) ==
  LET Kept(e) == /\ ~(e.tag = "link" /\ HasAttr(e, <<"rel">>) /\ Attr(e, <<"rel">>) \in RemovedRels)
                 /\ e.tag # "style"
  IN  SelectSeq(doc, Kept)

\* the position of the canvas doc[k] in querySelectorAll('canvas')
CanvasRank(doc, k) == Cardinality({j \in 1..k : doc[j].tag = "canvas"})

\* the img made of the live canvas j: img.src = canvas.toDataURL()
CanvasImage(where, j) ==
  [El("img", where, << <<(<<"src">>), <<"data:", "pixels">> >> >>, "none") EXCEPT !.origin = j]

ProcessCanvasesNoCatch(live, doc) ==
  [k \in 1..Len(doc) |->
     IF doc[k].tag = "canvas"
        /\ \E j \in 1..Len(live) :
             /\ live[j].tag = "canvas" /\ CanvasRank(live, j) = CanvasRank(doc, k)
             /\ \A i \in 1..j : live[i].tag = "canvas" => live[i].content = "readable"
       THEN CanvasImage(doc[k].where,
                        CHOOSE j \in 1..Len(live) :
                          live[j].tag = "canvas" /\ CanvasRank(live, j) = CanvasRank(doc, k))
       ELSE doc[k]]

\* processCanvases(doc): the i-th live canvas is read and the i-th canvas of
\* the clone replaced; a canvas whose toDataURL throws is skipped
ProcessCanvases(live, doc) ==
  [k \in 1..Len(doc) |->
     IF doc[k].tag = "canvas"
        /\ \E j \in 1..Len(live) :
             /\ live[j].tag = "canvas" /\ CanvasRank(live, j) = CanvasRank(doc, k)
             /\ live[j].content = "readable"
       THEN CanvasImage(doc[k].where,
                        CHOOSE j \in 1..Len(live) :
                          live[j].tag = "canvas" /\ CanvasRank(live, j) = CanvasRank(doc, k))
       ELSE doc[k]]

\* document.querySelector(`iframe[src="..."]`) for a src that is not '':
\* the first live iframe with that src, 0 for null
FrameLookup(live, src) ==
  LET js == {j \in 1..Len(live) :
               live[j].tag = "iframe" /\ HasAttr(live[j], <<"src">>)
               /\ Attr(live[j], <<"src">>) = src}
  IN  IF src = <<>> \/ js = {} THEN 0 ELSE CHOOSE j \in js : \A i \in js : j <= i

\* iframeDoc.documentElement.outerHTML
FrameMarkup(content) ==
  IF content = "script"
    THEN <<"<", "html", ">", "<", "script", ">">>
    ELSE <<"<", "html", ">", "<", "p", ">">>

\* one declaration of a cssText that is assigned: a length that is a number
\* without unit is not valid and the declaration is dropped
CssDecl(prop, v) == IF Len(v) = 2 THEN <<prop, ":">> \o v \o <<";">> ELSE <<>>

\* a || b
Or(a, b) == IF a # <<>> THEN a ELSE b

\* the div of the else branch: width:${iframe.width||'100%'};height:...
Placeholder(e) ==
  [El("div", e.where,
      << <<(<<"style">>),
           CssDecl("width", Or(Attr(e, <<"width">>), <<"100", "%">>))
           \o CssDecl("height", Or(Attr(e, <<"height">>), <<"150", "px">>))>> >>,
      "none") EXCEPT !.origin = e.origin]

\* the div of the catch branch: width:100%;height:150px
DefaultPlaceholder(e) ==
  [El("div", e.where,
      << <<(<<"style">>),
           CssDecl("width", <<"100", "%">>) \o CssDecl("height", <<"150", "px">>)>> >>,
      "none") EXCEPT !.origin = e.origin]

\* iframe.setAttribute('srcdoc', ...); iframe.removeAttribute('src')
Embedded(e, content) ==
  WithAttr(WithoutAttr(e, <<"src">>), <<"srcdoc">>, FrameMarkup(content))

\* processIframes(doc); threw: the frames of the clone whose lookup raised
ProcessIframes(live, doc, threw) ==
  [k \in 1..Len(doc) |->
     IF doc[k].tag # "iframe" THEN doc[k]
     ELSE IF k \in threw THEN DefaultPlaceholder(doc[k])
     ELSE LET j == FrameLookup(live, Attr(doc[k], <<"src">>))
          IN  IF j # 0 /\ live[j].content # "none"
                THEN Embedded(doc[k], live[j].content)
                ELSE Placeholder(doc[k])]

\* styleEl.textContent = allCSS; tempDoc.head.appendChild(styleEl)
InjectStyleElement(doc, css) ==
  Append(doc, [El("style", "head", <<>>, "none") EXCEPT !.text = css])

\* if (!tempDoc.querySelector('meta[charset]')) tempDoc.head.prepend(meta)
AddCharset(doc) ==
  IF \E k \in 1..Len(doc) : doc[k].tag = "meta" /\ HasAttr(doc[k], <<"charset">>)
    THEN doc
    ELSE <<El("meta", "head", << <<(<<"charset">>), <<"UTF-8">> >> >>, "none")>> \o doc

\* tempDoc.querySelectorAll('base').forEach(el => el.remove())
RemoveBase(doc) == LET NotBase(e) == e.tag # "base" IN SelectSeq(doc, NotBase)

RECURSIVE AttrsMarkup(_)
AttrsMarkup(attrs) ==
  IF attrs = <<>> THEN <<>>
  ELSE <<" ">> \o attrs[1][1] \o <<"=">> \o attrs[1][2] \o AttrsMarkup(Tail(attrs))

\* '<!DOCTYPE html>\n' + tempDoc.documentElement.outerHTML
RECURSIVE OuterHtml(_)
OuterHtml(doc) ==
  IF doc = <<>> THEN <<>>
  ELSE <<"<", doc[1].tag>> \o AttrsMarkup(doc[1].attrs) \o <<">">> \o doc[1].text
       \o OuterHtml(Tail(doc))

\* the text getAllStylesheetCSS returned
AllCss == <<"allCSS">>

InitDom ==
  /\ CapIdle
  /\ CssOff
  /\ ImpOff
  /\ AggOff
  /\ OutsideOff
  /\ domLive \in UNION {[1..n -> LiveShapes] : n \in 0..MaxElems}
  /\ domDoc = <<>>
  /\ domHtml = <<>>
  /\ domBorn = [k \in 1..Len(domLive) |-> k]
  /\ domPc = "clone"

\* one statement of the body between the style resolution and the return
DomStep(from, to, doc) ==
  /\ domPc = from
  /\ domDoc' = doc
  /\ domPc' = to
  /\ UNCHANGED <<domLive, domHtml, domBorn, notDomVars>>

DomClone == DomStep("clone", "scripts", CloneOf(domLive))

DomRemoveScripts == DomStep("scripts", "external", RemoveScripts(domDoc))

DomRemoveExternal == DomStep("external", "passes", RemoveExternalResources(domDoc))

\* the three passes that are awaited: they change no element of the kinds
\* of this harness
DomPasses == DomStep("passes", "canvas", domDoc)

DomCanvases == DomStep("canvas", "frames", ProcessCanvases(domLive, domDoc))

DomFrames ==
  \E threw \in SUBSET {k \in 1..Len(domDoc) : domDoc[k].tag = "iframe"} :
    DomStep("frames", "inject", ProcessIframes(domLive, domDoc, threw))

DomInjectStyle == DomStep("inject", "meta", InjectStyleElement(domDoc, AllCss))

DomMetadata == DomStep("meta", "serialize", RemoveBase(AddCharset(domDoc)))

DomSerialize ==
  /\ domPc = "serialize"
  /\ domHtml' = <<"<!DOCTYPE html>">> \o OuterHtml(domDoc)
  /\ domPc' = "done"
  /\ UNCHANGED <<domLive, domDoc, domBorn, notDomVars>>

NextDom ==
  \/ DomClone
  \/ DomRemoveScripts
  \/ DomRemoveExternal
  \/ DomPasses
  \/ DomCanvases
  \/ DomFrames
  \/ DomInjectStyle
  \/ DomMetadata
  \/ DomSerialize

SpecDom == InitDom /\ [][NextDom]_vars

\* seq with x put after its first p elements
InsertAt(seq, p, x) ==
  [k \in 1..(Len(seq) + 1) |-> IF k <= p THEN seq[k] ELSE IF k = p + 1 THEN x ELSE seq[k - 1]]

\* seq without its j-th element
RemoveAt(seq, j) ==
  [k \in 1..(Len(seq) - 1) |-> IF k < j THEN seq[k] ELSE seq[k + 1]]

\* while capturePageSnapshot awaits Promise.all of the three passes, a
\* script of the page inserts a canvas into the live document
LiveGainsCanvas ==
  /\ domPc = "passes"
  /\ Len(domLive) <= MaxElems
  /\ \E p \in 0..Len(domLive), content \in {"readable", "tainted"} :
       /\ domLive' = InsertAt(domLive, p, El("canvas", "body", <<>>, content))
       /\ domBorn' = InsertAt(domBorn, p, 0)
  /\ UNCHANGED <<domDoc, domHtml, domPc, notDomVars>>

\* during the same await, a script of the page removes a canvas from the
\* live document
LiveLosesCanvas ==
  /\ domPc = "passes"
  /\ \E j \in 1..Len(domLive) :
       /\ domLive[j].tag = "canvas"
       /\ domLive' = RemoveAt(domLive, j)
       /\ domBorn' = RemoveAt(domBorn, j)
  /\ UNCHANGED <<domDoc, domHtml, domPc, notDomVars>>

\* the body of capturePageSnapshot on a page whose scripts run during its
\* await
NextDomLive ==
  \/ NextDom
  \/ LiveGainsCanvas
  \/ LiveLosesCanvas

SpecDomLive == InitDom /\ [][NextDomLive]_vars

(***************************************************************************)
(* The Transport Codec: compressString of extension/background.js and      *)
(* decompressHtml of the store's worker                                    *)
(*                                                                         *)
(* A text is a sequence of UTF-16 code units, a byte array a sequence of   *)
(* numbers 0..255, a base64 text a sequence of the digits 0..63 with 64    *)
(* for the padding "=" and 99 for a character outside the alphabet.  gzip  *)
(* is a standard codec used as a black box: a frame (two magic bytes, the  *)
(* data, its length modulo 256) that DecompressionStream checks.           *)
(***************************************************************************)

\* bound: the length of the texts handed to compressString
MaxText == 3

\* the step of the byte-to-text loop (32768 in the source)
chunkSize == 2

\* "a", U+00E9, U+FEFF (the byte order mark), and the two halves of U+1F600
CodeUnits == {97, 233, 65279, 55357, 56832}

IsHighSurrogate(c) == c >= 55296 /\ c <= 56319

IsLowSurrogate(c) == c >= 56320 /\ c <= 57343

\* the UTF-8 bytes of one code point
Utf8Of(cp) ==
  IF cp < 128 THEN <<cp>>
  ELSE IF cp < 2048 THEN <<192 + (cp \div 64), 128 + (cp % 64)>>
  ELSE IF cp < 65536
    THEN <<224 + (cp \div 4096), 128 + ((cp \div 64) % 64), 128 + (cp % 64)>>
  ELSE <<240 + (cp \div 262144), 128 + ((cp \div 4096) % 64),
         128 + ((cp \div 64) % 64), 128 + (cp % 64)>>

\* new TextEncoder().encode(str), from code unit i on: a surrogate pair is
\* one code point, a surrogate without its other half becomes U+FFFD
RECURSIVE TextEncode(_, _)
TextEncode(str, i) ==
  IF i > Len(str) THEN <<>>
  ELSE IF IsHighSurrogate(str[i]) /\ i < Len(str) /\ IsLowSurrogate(str[i + 1])
    THEN Utf8Of(65536 + (str[i] - 55296) * 1024 + (str[i + 1] - 56320))
           \o TextEncode(str, i + 2)
  ELSE IF IsHighSurrogate(str[i]) \/ IsLowSurrogate(str[i])
    THEN Utf8Of(65533) \o TextEncode(str, i + 1)
  ELSE Utf8Of(str[i]) \o TextEncode(str, i + 1)

\* byte i of b is a continuation byte
IsContinuation(b, i) == i <= Len(b) /\ b[i] >= 128 /\ b[i] <= 191

\* the code units of the UTF-8 bytes from byte i on; a byte that begins no
\* sequence becomes U+FFFD
RECURSIVE Utf8Decode(_, _)
Utf8Decode(b, i) ==
  IF i > Len(b) THEN <<>>
  ELSE IF b[i] < 128 THEN <<b[i]>> \o Utf8Decode(b, i + 1)
  ELSE IF b[i] >= 194 /\ b[i] <= 223 /\ IsContinuation(b, i + 1)
    THEN <<(b[i] - 192) * 64 + (b[i + 1] - 128)>> \o Utf8Decode(b, i + 2)
  ELSE IF b[i] >= 224 /\ b[i] <= 239 /\ IsContinuation(b, i + 1)
          /\ IsContinuation(b, i + 2)
    THEN <<(b[i] - 224) * 4096 + (b[i + 1] - 128) * 64 + (b[i + 2] - 128)>>
           \o Utf8Decode(b, i + 3)
  ELSE IF b[i] >= 240 /\ b[i] <= 244 /\ IsContinuation(b, i + 1)
          /\ IsContinuation(b, i + 2) /\ IsContinuation(b, i + 3)
    THEN LET cp == (b[i] - 240) * 262144 + (b[i + 1] - 128) * 4096
                     + (b[i + 2] - 128) * 64 + (b[i + 3] - 128)
         IN <<55296 + ((cp - 65536) \div 1024), 56320 + ((cp - 65536) % 1024)>>
              \o Utf8Decode(b, i + 4)
  ELSE <<65533>> \o Utf8Decode(b, i + 1)

\* new TextDecoder().decode(combined): ignoreBOM is false, so a byte order
\* mark at the start of the bytes is not part of the text
TextDecode(combined) ==
  LET units == Utf8Decode(combined, 1)
  IN IF Len(units) > 0 /\ units[1] = 65279 THEN Tail(units) ELSE units

\* what CompressionStream('gzip') makes of the bytes written to it
Gzip(data) == <<31, 139>> \o data \o <<Len(data) % 256>>

\* what DecompressionStream('gzip') makes of the bytes written to it: the
\* data, or the error reader.read() rejects with
Gunzip(bytes) ==
  IF /\ Len(bytes) >= 3
     /\ bytes[1] = 31
     /\ bytes[2] = 139
     /\ bytes[Len(bytes)] = (Len(bytes) - 3) % 256
  THEN [ok |-> TRUE, data |-> SubSeq(bytes, 3, Len(bytes) - 1)]
  ELSE [ok |-> FALSE, data |-> <<>>]

\* the loop over compressedData: binary += String.fromCharCode.apply(null,
\* compressedData.subarray(i, i + chunkSize)), from index i on
RECURSIVE BinaryFrom(_, _)
BinaryFrom(compressedData, i) ==
  IF i > Len(compressedData) THEN <<>>
  ELSE LET to == IF i + chunkSize - 1 < Len(compressedData)
                   THEN i + chunkSize - 1 ELSE Len(compressedData)
       IN SubSeq(compressedData, i, to) \o BinaryFrom(compressedData, i + chunkSize)

\* btoa(binary)
RECURSIVE Btoa(_)
Btoa(binary) ==
  IF Len(binary) = 0 THEN <<>>
  ELSE IF Len(binary) = 1
    THEN <<(binary[1] \div 4), ((binary[1] % 4) * 16), 64, 64>>
  ELSE IF Len(binary) = 2
    THEN <<(binary[1] \div 4), ((binary[1] % 4) * 16) + (binary[2] \div 16),
           ((binary[2] % 16) * 4), 64>>
  ELSE <<(binary[1] \div 4), ((binary[1] % 4) * 16) + (binary[2] \div 16),
         ((binary[2] % 16) * 4) + (binary[3] \div 64), (binary[3] % 64)>>
         \o Btoa(SubSeq(binary, 4, Len(binary)))

\* the characters of the digits d, from digit i on
RECURSIVE AtobDigits(_, _)
AtobDigits(d, i) ==
  IF i + 3 <= Len(d)
    THEN <<(d[i] * 4) + (d[i + 1] \div 16), ((d[i + 1] % 16) * 16) + (d[i + 2] \div 4),
           ((d[i + 2] % 4) * 64) + d[i + 3]>> \o AtobDigits(d, i + 4)
  ELSE IF i + 2 = Len(d)
    THEN <<(d[i] * 4) + (d[i + 1] \div 16), ((d[i + 1] % 16) * 16) + (d[i + 2] \div 4)>>
  ELSE IF i + 1 = Len(d) THEN <<(d[i] * 4) + (d[i + 1] \div 16)>>
  ELSE <<>>

\* atob(base64Data): one or two "=" at the end of a text of 4n characters
\* are dropped; what is left decodes unless a character is outside the
\* alphabet or one character is left over
Atob(base64Data) ==
  LET n == Len(base64Data)
      pads == IF (n % 4) = 0 /\ n > 0 /\ base64Data[n] = 64
                THEN (IF base64Data[n - 1] = 64 THEN 2 ELSE 1)
                ELSE 0
      d == SubSeq(base64Data, 1, n - pads)
  IN IF (\E k \in 1..Len(d) : d[k] > 63) \/ (Len(d) % 4) = 1
       THEN [ok |-> FALSE, binary |-> <<>>]
       ELSE [ok |-> TRUE, binary |-> AtobDigits(d, 1)]

compressString(str) == Btoa(BinaryFrom(Gzip(TextEncode(str, 1)), 1))

\* the text, or the exception the call rejects with
decompressHtml(base64Data) ==
  LET a == Atob(base64Data)
      g == Gunzip(a.binary)
  IN IF ~a.ok THEN [ok |-> FALSE, text |-> <<>>, error |-> "InvalidCharacterError"]
     ELSE IF ~g.ok THEN [ok |-> FALSE, text |-> <<>>, error |-> "TypeError"]
     ELSE [ok |-> TRUE, text |-> TextDecode(g.data), error |-> ""]

InitZip ==
  /\ PageOff
  /\ StoreOff
  /\ PopupOff
  /\ PicOff
  /\ zipIn \in UNION {[1..n -> CodeUnits] : n \in 0..MaxText}
  /\ zipWire = <<>>
  /\ zipOut = <<>>
  /\ zipPc = "input"

\* handleCapture: compressedHtml = await compressString(result.html)
ZipCompress ==
  /\ zipPc = "input"
  /\ zipWire' = compressString(zipIn)
  /\ zipPc' = "sent"
  /\ UNCHANGED <<zipIn, zipOut, notZipVars>>

\* handleUpload: finalHtml = await decompressHtml(html)
ZipDecompress ==
  /\ zipPc = "sent"
  /\ zipOut' = decompressHtml(zipWire)
  /\ zipPc' = "received"
  /\ UNCHANGED <<zipIn, zipWire, notZipVars>>

NextZip ==
  \/ ZipCompress
  \/ ZipDecompress

SpecZip == InitZip /\ [][NextZip]_vars

(***************************************************************************)
(* The Snapshot Store: handleUpload and handleServe of the store's worker  *)
(* (the copy that decompresses, part_000 lines 164-368)                    *)
(*                                                                         *)
(* Every action is one turn of the worker: from the arrival of a request   *)
(* or the settling of an awaited promise to the next await or the          *)
(* response.  One upload and one fetch can be in progress at a time, and   *)
(* the clock moves between any two turns.  env.SNAPSHOTS answers every get *)
(* and delete; a put can fail.  A string of the request is a sequence of   *)
(* characters, a time a number of milliseconds.                            *)
(***************************************************************************)

\* bound: the uploads of one behaviour
MaxUploads == 1

\* bound: the fetches recorded after one upload
MaxFetches == 3

MAX_SIZE == 52428800

\* what generateId can return
Ids == {"id1", "id2"}

\* the instants the clock shows
Instants == {0, 60000, 60001}

multipliers == [m |-> 60 * 1000, h |-> 60 * 60 * 1000, d |-> 24 * 60 * 60 * 1000]

\* a value of the JSON body: a string, a number, or no such key
Str(chars) == [type |-> "string", chars |-> chars, value |-> 0]

Num(value) == [type |-> "number", chars |-> <<>>, value |-> value]

Undefined == [type |-> "undefined", chars |-> <<>>, value |-> 0]

\* !v
Falsy(v) ==
  \/ v.type = "undefined"
  \/ v.type = "string" /\ v.chars = <<>>
  \/ v.type = "number" /\ v.value = 0

\* expiresAt: null, or the time of an ISO string
NullStamp == [null |-> TRUE, ms |-> 0]

Stamp(ms) == [null |-> FALSE, ms |-> ms]

DigitChars == {"0", "1", "2", "3", "4", "5", "6", "7", "8", "9"}

DigitValue ==
  "0" :> 0 @@ "1" :> 1 @@ "2" :> 2 @@ "3" :> 3 @@ "4" :> 4 @@
  "5" :> 5 @@ "6" :> 6 @@ "7" :> 7 @@ "8" :> 8 @@ "9" :> 9

\* expiresIn.match(/^(\d+)([dhm])$/)
RegexMatches(chars) ==
  /\ Len(chars) >= 2
  /\ chars[Len(chars)] \in {"d", "h", "m"}
  /\ \A k \in 1..(Len(chars) - 1) : chars[k] \in DigitChars

\* the digits without their leading zeros
RECURSIVE Significant(_)
Significant(ds) ==
  IF Len(ds) > 0 /\ ds[1] = "0" THEN Significant(Tail(ds)) ELSE ds

\* parseInt(match[1], 10)
RECURSIVE ParseInt(_)
ParseInt(ds) ==
  IF Len(ds) = 0 THEN 0
  ELSE ParseInt(SubSeq(ds, 1, Len(ds) - 1)) * 10 + DigitValue[ds[Len(ds)]]

\* what a call returned, or the exception it threw
Returned(v) == [thrown |-> FALSE, error |-> "", value |-> v]

Thrown(error) == [thrown |-> TRUE, error |-> error, value |-> NullStamp]

\* new Date(now + value * multipliers[unit]).toISOString(): a number of 16
\* digits or more is at least 10^15, and 10^15 minutes are beyond the range
\* of Date (8.64 * 10^15 ms), where toISOString throws
ToISOString(now, ds, unit) ==
  IF Len(Significant(ds)) >= 16 THEN Thrown("RangeError: Invalid time value")
  ELSE Returned(Stamp(now + ParseInt(Significant(ds)) * multipliers[unit]))

parseExpiration(expiresIn, now) ==
  IF Falsy(expiresIn) \/ expiresIn = Str(<<"n", "e", "v", "e", "r">>)
    THEN Returned(NullStamp)
  ELSE IF expiresIn.type # "string"
    THEN Thrown("TypeError: expiresIn.match is not a function")
  ELSE IF ~RegexMatches(expiresIn.chars) THEN Returned(NullStamp)
  ELSE ToISOString(now, SubSeq(expiresIn.chars, 1, Len(expiresIn.chars) - 1),
                   expiresIn.chars[Len(expiresIn.chars)])

\* the html of a body: its characters (base64, or the document itself, or
\* none) and the size of its encoding in bytes
Html(form, seq, bytes) == [form |-> form, seq |-> seq, bytes |-> bytes]

NoHtml == Html("none", <<>>, 0)

HtmlValues ==
  {NoHtml,
   Html("base64", compressString(<<60, 112, 62>>), 1),
   Html("base64", compressString(<<97>>), 1),
   Html("base64", compressString(<<60, 112, 62>>), MAX_SIZE + 1),
   Html("base64", Btoa(<<1, 2, 3>>), 1),
   Html("base64", <<0, 99>>, 1),
   Html("text", <<60, 112, 62>>, 1)}

ExpiresInValues ==
  {Undefined, Str(<<"n", "e", "v", "e", "r">>), Num(60), Str(<<"1", "w">>),
   Str(<<"0", "m">>), Str(<<"1", "m">>), Str(<<"0", "1", "h">>), Str(<<"1", "d">>),
   Str(<<"9", "9", "9", "9", "9", "9", "9", "9", "9", "9", "9", "9", "9", "9", "9", "9", "m">>)}

\* Content-Length: absent, or a decimal number
NoLength == [present |-> FALSE, value |-> 0]

Lengths == {NoLength} \cup {[present |-> TRUE, value |-> n] : n \in {2, MAX_SIZE + 2}}

\* what request.json() yields: the body, or a SyntaxError
Body(html, compressed, expiresIn) ==
  [json |-> TRUE, html |-> html, compressed |-> compressed, expiresIn |-> expiresIn]

Malformed == [json |-> FALSE, html |-> NoHtml, compressed |-> FALSE, expiresIn |-> Undefined]

\* the uploads of the harness: every declared size with every html, with
\* and without an expiration; and every expiresIn with the upload the
\* extension sends
Requests ==
  {[contentLength |-> c, body |-> b] :
     c \in Lengths,
     b \in {Malformed} \cup {Body(h, z, e) : h \in HtmlValues, z \in BOOLEAN,
                                             e \in {Undefined, Str(<<"1", "m">>)}}}
    \cup {[contentLength |-> NoLength,
           body |-> Body(Html("base64", compressString(<<60, 112, 62>>), 1), TRUE, e)] :
            e \in ExpiresInValues}

\* an entry of env.SNAPSHOTS
Absent == [present |-> FALSE, body |-> <<>>, expiresAt |-> NullStamp]

Entry(body, expiresAt) == [present |-> TRUE, body |-> body, expiresAt |-> expiresAt]

\* a response of handleUpload
NoResponse == [n |-> 0, status |-> 0, error |-> "", id |-> "", expiresAt |-> NullStamp]

NoUpload == [pc |-> "idle"]

NoFetch == [pc |-> "idle"]

NoTracked == [id |-> ""]

\* the store before the first request of the behaviour: empty, or holding
\* an earlier upload (without expiration, or with "0m")
StoresAtStart ==
  {[i \in Ids |-> Absent]}
    \cup {[i \in Ids |-> IF i = "id1" THEN Entry(<<98>>, e) ELSE Absent] :
            e \in {NullStamp, Stamp(0)}}

InitStore ==
  /\ PageOff
  /\ ZipOff
  /\ PopupOff
  /\ PicOff
  /\ srvNow = 0
  /\ snapshots \in StoresAtStart
  /\ issued = {i \in Ids : snapshots[i].present}
  /\ upReq = NoUpload
  /\ upDone = NoResponse
  /\ lastOk = NoTracked
  /\ getReq = NoFetch
  /\ served = <<>>

\* time passes
Tick ==
  /\ \E t \in Instants : t > srvNow /\ srvNow' = t
  /\ UNCHANGED <<snapshots, issued, upReq, upDone, lastOk, getReq, served, notSrvVars>>

\* fetch: POST /api/upload
UploadArrives ==
  /\ upReq = NoUpload
  /\ upDone.n < MaxUploads
  /\ \E r \in Requests : upReq' = [pc |-> "start", req |-> r]
  /\ UNCHANGED <<srvNow, snapshots, issued, upDone, lastOk, getReq, served, notSrvVars>>

\* return new Response(...): the call of handleUpload ends
Respond(status, error, id, expiresAt) ==
  /\ upDone' = [n |-> upDone.n + 1, status |-> status, error |-> error,
                id |-> id, expiresAt |-> expiresAt]
  /\ upReq' = NoUpload

\* the declared size is checked, then the body is awaited
UploadStart ==
  /\ upReq.pc = "start"
  /\ IF upReq.req.contentLength.present /\ upReq.req.contentLength.value > MAX_SIZE
       THEN Respond(413, "Content too large", "", NullStamp)
       ELSE /\ upReq' = [upReq EXCEPT !.pc = "json"]
            /\ UNCHANGED upDone
  /\ UNCHANGED <<srvNow, snapshots, issued, lastOk, getReq, served, notSrvVars>>

\* generateId, parseExpiration, and the call of env.SNAPSHOTS.put
Persist(finalHtml) ==
  \E id \in Ids :
    LET expiresAt == parseExpiration(upReq.req.body.expiresIn, srvNow)
    IN /\ issued' = issued \cup {id}
       /\ IF expiresAt.thrown
            THEN Respond(500, "Upload failed: " \o expiresAt.error, "", NullStamp)
            ELSE /\ upReq' = [pc |-> "put", req |-> upReq.req, id |-> id,
                              finalHtml |-> finalHtml, expiresAt |-> expiresAt.value,
                              at |-> srvNow, fresh |-> id \notin issued]
                 /\ UNCHANGED upDone

\* request.json() settled
UploadParsed ==
  /\ upReq.pc = "json"
  /\ IF ~upReq.req.body.json
       THEN /\ Respond(500, "Upload failed: SyntaxError", "", NullStamp)
            /\ UNCHANGED issued
     ELSE IF upReq.req.body.html.form = "none"
       THEN /\ Respond(400, "Missing html content", "", NullStamp)
            /\ UNCHANGED issued
     ELSE IF upReq.req.body.compressed
       THEN /\ upReq' = [upReq EXCEPT !.pc = "decompress"]
            /\ UNCHANGED <<upDone, issued>>
     ELSE Persist(upReq.req.body.html.seq)
  /\ UNCHANGED <<srvNow, snapshots, lastOk, getReq, served, notSrvVars>>

\* decompressHtml(html) of a body that is base64, or of one that is not
Decompressed(html) ==
  IF html.form = "base64" THEN decompressHtml(html.seq)
  ELSE [ok |-> FALSE, text |-> <<>>, error |-> "InvalidCharacterError"]

\* await decompressHtml(html) settled
UploadDecompressed ==
  /\ upReq.pc = "decompress"
  /\ LET d == Decompressed(upReq.req.body.html)
     IN IF ~d.ok
          THEN /\ Respond(400, "Failed to decompress: " \o d.error, "", NullStamp)
               /\ UNCHANGED issued
          ELSE Persist(d.text)
  /\ UNCHANGED <<srvNow, snapshots, lastOk, getReq, served, notSrvVars>>

\* env.SNAPSHOTS.put(id, finalHtml, ...)
Put(store, id, body, expiresAt) == [store EXCEPT ![id] = Entry(body, expiresAt)]

\* a put that failed and answers 500, and yet left its entry
UploadStoreFailsPartial ==
  /\ upReq.pc = "put"
  /\ snapshots' = Put(snapshots, upReq.id, upReq.finalHtml, upReq.expiresAt)
  /\ Respond(500, "Upload failed: put", "", NullStamp)
  /\ UNCHANGED <<srvNow, issued, lastOk, getReq, served, notSrvVars>>

\* the put was done: 200 with the id
UploadStored ==
  /\ upReq.pc = "put"
  /\ snapshots' = Put(snapshots, upReq.id, upReq.finalHtml, upReq.expiresAt)
  /\ Respond(200, "", upReq.id, upReq.expiresAt)
  /\ lastOk' = [id |-> upReq.id, body |-> upReq.req.body, at |-> upReq.at,
                fresh |-> upReq.fresh]
  /\ served' = <<>>
  /\ UNCHANGED <<srvNow, issued, getReq, notSrvVars>>

\* the put threw: the outer catch answers 500
UploadStoreFails ==
  /\ upReq.pc = "put"
  /\ Respond(500, "Upload failed: put", "", NullStamp)
  /\ UNCHANGED <<srvNow, snapshots, issued, lastOk, getReq, served, notSrvVars>>

\* fetch: GET /{id}
ServeArrives ==
  /\ getReq = NoFetch
  /\ Len(served) < MaxFetches
  /\ \E id \in Ids : getReq' = [pc |-> "get", id |-> id]
  /\ UNCHANGED <<srvNow, snapshots, issued, upReq, upDone, lastOk, served, notSrvVars>>

\* metadata.expiresAt && new Date(metadata.expiresAt) < new Date()
Expired(object, now) == ~object.expiresAt.null /\ object.expiresAt.ms < now

\* return new Response(...): the call of handleServe ends; the responses
\* for the id of the last upload are recorded
Answer(status, body) ==
  /\ getReq' = NoFetch
  /\ served' = IF getReq.id = lastOk.id
                 THEN Append(served, [at |-> srvNow, status |-> status, body |-> body])
                 ELSE served

\* env.SNAPSHOTS.get(id) settled
ServeGot ==
  /\ getReq.pc = "get"
  /\ LET object == snapshots[getReq.id]
     IN IF ~object.present THEN Answer(404, <<>>)
        ELSE IF Expired(object, srvNow)
          THEN /\ getReq' = [pc |-> "delete", id |-> getReq.id]
               /\ UNCHANGED served
        ELSE Answer(200, object.body)
  /\ UNCHANGED <<srvNow, snapshots, issued, upReq, upDone, lastOk, notSrvVars>>

\* an expired entry that is answered with 410 and left in the store
OnExpiredKeep(store, id) == store

\* env.SNAPSHOTS.delete(id)
OnExpired(store, id) == [store EXCEPT ![id] = Absent]

\* the delete was done: 410
ServeDeleted ==
  /\ getReq.pc = "delete"
  /\ snapshots' = OnExpired(snapshots, getReq.id)
  /\ Answer(410, <<>>)
  /\ UNCHANGED <<srvNow, issued, upReq, upDone, lastOk, notSrvVars>>

NextStore ==
  \/ Tick
  \/ UploadArrives
  \/ UploadStart
  \/ UploadParsed
  \/ UploadDecompressed
  \/ UploadStored
  \/ UploadStoreFails
  \/ ServeArrives
  \/ ServeGot
  \/ ServeDeleted

SpecStore == InitStore /\ [][NextStore]_vars

(***************************************************************************)
(* The popup (part_001 lines 93-292) and the background listener with      *)
(* handleCapture (extension/background.js lines 3-98)                      *)
(*                                                                         *)
(* Every action is a click, or one turn of the popup's or the background's *)
(* event loop.  A control can be clicked when its view is the visible one  *)
(* and it is not disabled.  What the tab, the injected script and the      *)
(* store answer is chosen when the code reads it.                          *)
(***************************************************************************)

\* bound: the calls of captureCurrentPage of one behaviour
MaxCaptures == 2

\* bound: the history handlers that await getHistory at one time
MaxHistory == 1

\* what chrome.tabs.query finds: no tab, a chrome:// or chrome-extension://
\* page, another page
TabKinds == {"none", "internal", "page"}

\* what await chrome.scripting.executeScript yields: a rejection, no
\* results, a result that is undefined, {success: false}, {success: true}
ScriptOutcomes == {"rejected", "empty", "noresult", "failed", "success"}

\* what await fetch(API_URL/api/upload) yields: a response that is ok, one
\* that is not, a rejection; "unreadable" marks an ok response whose body
\* response.json() could not parse
UploadOutcomes == {"ok", "notok", "network"}

NewRun == [pc |-> "query", tab |-> "", errors |-> 0]

NoMessage == [pc |-> "none", result |-> "", upload |-> "", uploads |-> 0,
              answers |-> 0, answer |-> ""]

\* captureBtn.disabled after setLoading(loading), were the button left enabled
setLoadingIgnored(loading) == FALSE

\* captureBtn.disabled after setLoading(loading)
setLoading(loading) == loading

InitPopup ==
  /\ PageOff
  /\ ZipOff
  /\ StoreOff
  /\ PicOff
  /\ view = "capture"
  /\ disabled = FALSE
  /\ histWait = 0
  /\ runs = <<>>
  /\ msgs = <<>>

\* captureCurrentPage(): setLoading(true), then await chrome.tabs.query
captureCurrentPage ==
  /\ Len(runs) < MaxCaptures
  /\ disabled' = setLoading(TRUE)
  /\ runs' = Append(runs, NewRun)
  /\ msgs' = Append(msgs, NoMessage)

\* click on captureBtn
ClickCapture ==
  /\ view = "capture"
  /\ ~disabled
  /\ captureCurrentPage
  /\ UNCHANGED <<view, histWait, notPopVars>>

\* click on retryBtn: showView('capture'); captureCurrentPage()
ClickRetry ==
  /\ view = "error"
  /\ view' = "capture"
  /\ captureCurrentPage
  /\ UNCHANGED <<histWait, notPopVars>>

\* click on newCaptureBtn
ClickNewCapture ==
  /\ view = "success"
  /\ view' = "capture"
  /\ UNCHANGED <<disabled, histWait, runs, msgs, notPopVars>>

\* click on historyToggle, which showView hides in the history view: the
\* handler awaits getHistory()
ClickHistory ==
  /\ view # "history"
  /\ histWait < MaxHistory
  /\ histWait' = histWait + 1
  /\ UNCHANGED <<view, disabled, runs, msgs, notPopVars>>

\* getHistory() settled: renderHistory(history); showView('history')
HistoryLoaded ==
  /\ histWait > 0
  /\ histWait' = histWait - 1
  /\ view' = "history"
  /\ UNCHANGED <<disabled, runs, msgs, notPopVars>>

\* click on backBtn
ClickBack ==
  /\ view = "history"
  /\ view' = "capture"
  /\ UNCHANGED <<disabled, histWait, runs, msgs, notPopVars>>

\* the catch and the finally of call k: the message is shown, the error
\* view made visible, the button enabled
Caught(k, tab) ==
  /\ runs' = [runs EXCEPT ![k].pc = "done", ![k].tab = tab, ![k].errors = @ + 1]
  /\ view' = "error"
  /\ disabled' = setLoading(FALSE)

\* chrome.tabs.query settled: without a tab or on an internal page the call
\* throws, else it sends the 'capture' message, which starts handleCapture
TabsQueried(k) ==
  /\ runs[k].pc = "query"
  /\ \E tab \in TabKinds :
       IF tab # "page"
         THEN /\ Caught(k, tab)
              /\ UNCHANGED msgs
         ELSE /\ runs' = [runs EXCEPT ![k].pc = "sent", ![k].tab = tab]
              /\ msgs' = [msgs EXCEPT ![k].pc = "script"]
              /\ UNCHANGED <<view, disabled>>
  /\ UNCHANGED <<histWait, notPopVars>>

\* the listener's reactions: .then(sendResponse) with the value, or
\* .catch(err => sendResponse({error: err.message}))
SendResponse(k, m, answer) ==
  msgs' = [msgs EXCEPT ![k] = [m EXCEPT !.pc = "answered", !.answers = @ + 1,
                                        !.answer = answer]]

\* handleCapture throws after executeScript: on a rejection, on no results,
\* and whatever the result when only the results are checked
CaptureFailedResultsOnly(outcome) == outcome \in {"rejected", "empty"}

\* handleCapture throws after executeScript: on a rejection, on no results,
\* on no result or a result without success
CaptureFailed(outcome) == outcome # "success"

\* await chrome.scripting.executeScript settled
ScriptSettles(k) ==
  /\ msgs[k].pc = "script"
  /\ \E outcome \in ScriptOutcomes :
       LET m == [msgs[k] EXCEPT !.result = outcome]
       IN IF CaptureFailed(outcome)
            THEN SendResponse(k, m, "error")
            ELSE msgs' = [msgs EXCEPT ![k] = [m EXCEPT !.pc = "compress"]]
  /\ UNCHANGED <<view, disabled, histWait, runs, notPopVars>>

\* await compressString(result.html) settled: the upload request is sent
Compressed(k) ==
  /\ msgs[k].pc = "compress"
  /\ msgs' = [msgs EXCEPT ![k].pc = "upload", ![k].uploads = @ + 1]
  /\ UNCHANGED <<view, disabled, histWait, runs, notPopVars>>

\* await fetch(...) settled
UploadSettles(k) ==
  /\ msgs[k].pc = "upload"
  /\ \E outcome \in UploadOutcomes :
       LET m == [msgs[k] EXCEPT !.upload = outcome]
       IN IF outcome = "network" THEN SendResponse(k, m, "error")
          ELSE msgs' = [msgs EXCEPT
                          ![k] = [m EXCEPT !.pc = IF outcome = "ok" THEN "json" ELSE "text"]]
  /\ UNCHANGED <<view, disabled, histWait, runs, notPopVars>>

\* await response.text() settled: throw new Error(`Upload failed: ...`)
TextRead(k) ==
  /\ msgs[k].pc = "text"
  /\ SendResponse(k, msgs[k], "error")
  /\ UNCHANGED <<view, disabled, histWait, runs, notPopVars>>

\* await response.json() settled: with the store's response, or rejected
JsonRead(k) ==
  /\ msgs[k].pc = "json"
  /\ \E parsed \in BOOLEAN :
       IF parsed THEN SendResponse(k, msgs[k], "response")
       ELSE SendResponse(k, [msgs[k] EXCEPT !.upload = "unreadable"], "error")
  /\ UNCHANGED <<view, disabled, histWait, runs, notPopVars>>

\* await chrome.runtime.sendMessage settled in the popup
ResponseArrives(k) ==
  /\ runs[k].pc = "sent"
  /\ msgs[k].pc = "answered"
  /\ IF msgs[k].answer = "error"
       THEN Caught(k, runs[k].tab)
       ELSE /\ runs' = [runs EXCEPT ![k].pc = "saving"]
            /\ UNCHANGED <<view, disabled>>
  /\ UNCHANGED <<histWait, msgs, notPopVars>>

\* await saveToHistory settled: showView('success') and the finally, or
\* the catch
HistorySaved(k) ==
  /\ runs[k].pc = "saving"
  /\ \E saved \in BOOLEAN :
       IF saved
         THEN /\ runs' = [runs EXCEPT ![k].pc = "done"]
              /\ view' = "success"
              /\ disabled' = setLoading(FALSE)
         ELSE Caught(k, runs[k].tab)
  /\ UNCHANGED <<histWait, msgs, notPopVars>>

\* a turn of the popup's own event loop
PopupTurn ==
  \/ HistoryLoaded
  \/ \E k \in 1..Len(runs) : TabsQueried(k) \/ ResponseArrives(k) \/ HistorySaved(k)

NextPopup ==
  \/ ClickCapture
  \/ ClickRetry
  \/ ClickNewCapture
  \/ ClickHistory
  \/ ClickBack
  \/ PopupTurn
  \/ \E k \in 1..Len(msgs) : ScriptSettles(k)
  \/ \E k \in 1..Len(msgs) : Compressed(k)
  \/ \E k \in 1..Len(msgs) : UploadSettles(k)
  \/ \E k \in 1..Len(msgs) : TextRead(k)
  \/ \E k \in 1..Len(msgs) : JsonRead(k)

SpecPopup == InitPopup /\ [][NextPopup]_vars

\* what the two event loops guarantee: a turn that is ready runs, and
\* compressString ends.  When the injected script and the store answer is
\* not guaranteed.
FairSpecPopup ==
  /\ SpecPopup
  /\ WF_vars(PopupTurn)
  /\ \A k \in 1..MaxCaptures : WF_vars(\E j \in DOMAIN msgs : j = k /\ Compressed(j))

(***************************************************************************)
(* The concurrent passes over the clone: processImages with imageToDataUrl *)
(* (extension/background.js lines 237-295) beside processInlineBackgrounds *)
(* (298-305), started together by Promise.all (390-394)                    *)
(*                                                                         *)
(* The clone is taken and the three passes are started in one turn, so     *)
(* clone image j is the copy of live image j and every callback runs to    *)
(* its first await before anything else does.  picWrites lists, in order,  *)
(* each write of a task to a location of the clone or of the live          *)
(* document.                                                               *)
(***************************************************************************)

\* bound: the img elements of the page
MaxImgs == 2

\* the src attributes: two URLs and a data: URL
Srcs == {"a.png", "b.png", "data:"}

\* the callback of processImages for clone image j, and the callback of
\* processInlineBackgrounds for clone element e
ImgTask(j) == <<"img", j>>
BgTask(e) == <<"style", e>>

\* img.onload and img.onerror hold no resolver of the capture
NoResolver == {}

\* document.querySelector(`img[src="..."]`): the first live img with this src
RECURSIVE FirstLive(_, _)
FirstLive(src, i) ==
  IF i > Len(picLive) THEN 0
  ELSE IF picLive[i].src = src THEN i ELSE FirstLive(src, i + 1)

\* the callback of clone image j up to its first await, on the live images
\* live: [live, pc, writes]
StartImage(j, live) ==
  LET src == picClone[j].src
      i == FirstLive(src, 1)
  IN IF src = "data:" THEN [live |-> live, pc |-> "done", writes |-> <<>>]
     ELSE IF ~live[i].complete
       THEN [live |-> [live EXCEPT ![i].onload = {j}, ![i].onerror = {j}],
             pc |-> "waiting",
             writes |-> << <<"live", i, "onload", ImgTask(j)>>,
                           <<"live", i, "onerror", ImgTask(j)>> >>]
       ELSE [live |-> live, pc |-> "loaded", writes |-> <<>>]

\* [...doc.querySelectorAll('img')].map(async ...): the callbacks of clone
\* images j..n started in document order
RECURSIVE StartImages(_, _, _, _)
StartImages(j, live, pcs, writes) ==
  IF j > Len(picClone) THEN [live |-> live, pcs |-> pcs, writes |-> writes]
  ELSE LET st == StartImage(j, live)
       IN StartImages(j + 1, st.live, Append(pcs, st.pc), writes \o st.writes)

\* the page's images when the clone is taken, as the src of each, whether
\* it is complete, and which of them has a style attribute with a url
InitPic ==
  /\ PageOff
  /\ ZipOff
  /\ StoreOff
  /\ PopupOff
  /\ \E n \in 1..MaxImgs :
     \E srcs \in [1..n -> Srcs], done \in [1..n -> BOOLEAN], styled \in 0..n :
       LET live == [i \in 1..n |-> [src |-> srcs[i], complete |-> done[i],
                                    onload |-> NoResolver, onerror |-> NoResolver]]
       IN /\ picClone = [i \in 1..n |-> [src |-> srcs[i], srcset |-> TRUE,
                                         style |-> IF i = styled THEN "url" ELSE ""]]
          /\ picLive = live
          /\ picTask = <<>>
          /\ picWrites = <<>>

\* Promise.all([processImages(tempDoc), processInlineBackgrounds(tempDoc),
\* processSvgImages(tempDoc)]): every callback runs to its first await
PassesStart ==
  /\ picTask = <<>>
  /\ LET st == StartImages(1, picLive, <<>>, <<>>)
     IN /\ picLive' = st.live
        /\ picTask' = st.pcs
        /\ picWrites' = st.writes
  /\ UNCHANGED <<picClone, notPicVars>>

\* the live image i ends loading, with load or with error: the handler in
\* img.onload / img.onerror is called, which resolves the promise of the
\* task that wrote it
ImageLoads(i) ==
  /\ picTask # <<>>
  /\ ~picLive[i].complete
  /\ picLive' = [picLive EXCEPT ![i].complete = TRUE]
  /\ picTask' = [j \in DOMAIN picTask |->
                   IF j \in picLive[i].onload /\ picTask[j] = "waiting"
                     THEN "loaded" ELSE picTask[j]]
  /\ UNCHANGED <<picClone, picWrites, notPicVars>>

\* setTimeout(r, 2000) of task j fires
TimerFires(j) ==
  /\ picTask[j] = "waiting"
  /\ picTask' = [picTask EXCEPT ![j] = "loaded"]
  /\ UNCHANGED <<picLive, picClone, picWrites, notPicVars>>

\* the rest of the callback of clone image j: the data URL of the canvas or
\* of fetchAsDataUrl, or the original URL, is set; srcset and loading are
\* removed
ImageInlined(j) ==
  /\ picTask[j] = "loaded"
  /\ \E dataUrl \in {"data:", picClone[j].src} :
       picClone' = [picClone EXCEPT ![j].src = dataUrl, ![j].srcset = FALSE]
  /\ picTask' = [picTask EXCEPT ![j] = "done"]
  /\ picWrites' = picWrites \o << <<"clone", j, "src", ImgTask(j)>>,
                                  <<"clone", j, "srcset", ImgTask(j)>>,
                                  <<"clone", j, "loading", ImgTask(j)>> >>
  /\ UNCHANGED <<picLive, notPicVars>>

\* the callback of processInlineBackgrounds for element e ends: its style
\* attribute is set
BackgroundInlined(e) ==
  /\ picTask # <<>>
  /\ picClone[e].style = "url"
  /\ picClone' = [picClone EXCEPT ![e].style = "data:"]
  /\ picWrites' = Append(picWrites, <<"clone", e, "style", BgTask(e)>>)
  /\ UNCHANGED <<picLive, picTask, notPicVars>>

NextPic ==
  \/ PassesStart
  \/ \E i \in 1..Len(picLive) : ImageLoads(i)
  \/ \E j \in 1..Len(picTask) : TimerFires(j)
  \/ \E j \in 1..Len(picTask) : ImageInlined(j)
  \/ \E e \in 1..Len(picClone) : BackgroundInlined(e)

SpecPic == InitPic /\ [][NextPic]_vars

(***************************************************************************)
(* Properties of the capture and of the Fetcher                            *)
(***************************************************************************)

AllStages ==
  {"styles", "clone", "sanitize", "canvas", "frames", "inject", "meta", "serialize"}

\* C1: every value capturePageSnapshot returns is success = true with an html
\* string and no error field, or success = false with a non-empty error string
\* and no html field
C1_ResultShape ==
  promise = "fulfilled" =>
    \/ /\ result.success = TRUE
       /\ DOMAIN result = {"success", "html", "title", "sourceUrl"}
       /\ result.html.doctype = "<!DOCTYPE html>"
    \/ /\ result.success = FALSE
       /\ DOMAIN result = {"success", "error"}
       /\ result.error # ""

\* a stage raised an exception with an empty message and the capture returned
\* the failure value with the fallback message
C1_Witness ==
  /\ promise = "fulfilled"
  /\ caught = ""
  /\ result = [success |-> FALSE, error |-> "Capture failed"]

\* C2: an exception that a stage or a pass lets out never escapes
\* capturePageSnapshot: the promise is never rejected, and the run ends in
\* Done(failure) with a message
C2_ExceptionsBecomeFailure ==
  /\ promise # "rejected"
  /\ caught # NoError =>
       /\ pc = "done"
       /\ promise = "fulfilled"
       /\ result.success = FALSE
       /\ result.error # ""

\* an inlining pass raised while the body was waiting for the passes, and
\* the run ended in Done(failure)
C2_Witness ==
  /\ caught = "boom"
  /\ task["bg"] = "rejected"
  /\ pc = "done"
  /\ result = [success |-> FALSE, error |-> "boom"]

\* C3: style resolution ends before the clone is created; sanitizing ends
\* before any inlining pass starts; the image, background, vector-graphic and
\* canvas passes have ended before the frame pass starts; the frame pass ends
\* before the style block is injected; serialization is the last step
C3_StageOrder ==
  /\ "clone" \in started => "styles" \in finished
  /\ (\E t \in PassTasks : task[t] # "idle") => "sanitize" \in finished
  /\ "canvas" \in started => \A t \in PassTasks : task[t] = "fulfilled"
  /\ "frames" \in started =>
       /\ \A t \in PassTasks : task[t] = "fulfilled"
       /\ "canvas" \in finished
  /\ "inject" \in started => "frames" \in finished
  /\ "serialize" \in started => AllStages \ {"serialize"} \subseteq finished
  /\ "serialize" \in finished => pc = "done" /\ started = AllStages /\ finished = AllStages

\* a run that went through every stage and returned the serialized document
C3_Witness ==
  /\ "serialize" \in finished
  /\ promise = "fulfilled"
  /\ result.success = TRUE
  /\ clone.frame = "placeholder"

\* C4: the live document is never mutated by a capture: every property of
\* the live image element has the value it had when the capture started
C4_LiveDocumentUntouched == liveImg = LiveImgAtStart

\* C5: every capture run eventually reaches Done(success) or Done(failure),
\* whatever the network does
C5_EventuallyDone == <>(pc = "done")

\* C6: a call of fetchAsDataUrl whose endpoint has not responded when the
\* 10 s timer fires has returned null once the timer fired, never data; and
\* a call that waits for the response does not wait for ever
C6_TimeoutReturnsUnavailable ==
  /\ [](\A t \in Tasks : fx[t].ev = "timeout" =>
                           fx[t].state = "done" /\ fx[t].result = Null)
  /\ \A t \in Tasks : (fx[t].state = "headers") ~> (fx[t].state # "headers")

\* the timer of a call fired and the call returned null
C6_Witness ==
  \E t \in Tasks : fx[t].ev = "timeout" /\ fx[t].state = "done" /\ fx[t].result = Null

\* what the Fetcher is to return after the environment's last event
FetchExpected(ev) ==
  CASE ev = "readok" -> "data"
    [] ev = "inline" -> "absoluteUrl"
    [] OTHER -> Null

\* C7: fetchAsDataUrl never throws or rejects: a malformed URL, a non-success
\* response, a network error, an abort, an empty body and a read error all
\* give null; a successful fetch with a non-empty body gives the data URL
C7_FetcherNeverThrows ==
  \A t \in Tasks :
    /\ fx[t].state # "threw"
    /\ fx[t].state = "done" =>
         /\ fx[t].ev \in {"malformed", "inline", "notok", "neterror", "timeout",
                          "empty", "bodyerror", "readerror", "readok"}
         /\ fx[t].result = FetchExpected(fx[t].ev)

\* one call returned the data URL while another's body could not be read
C7_Witness ==
  \E t, u \in Tasks :
    /\ fx[t].state = "done" /\ fx[t].ev = "readok" /\ fx[t].result = "data"
    /\ fx[u].state = "done" /\ fx[u].ev = "bodyerror" /\ fx[u].result = Null

\* C8: a call of fetchAsDataUrl issues at most one request, and none for a
\* malformed URL (null) or an inline URL (the URL itself); no caller calls it
\* a second time
C8_SingleRequest ==
  \A t \in Tasks :
    /\ fx[t].reqs <= 1
    /\ fx[t].calls <= 1
    /\ fx[t].state # "none" /\ fx[t].ev = "malformed" =>
         fx[t].reqs = 0 /\ fx[t].state = "done" /\ fx[t].result = Null
    /\ fx[t].state # "none" /\ fx[t].ev = "inline" =>
         fx[t].reqs = 0 /\ fx[t].state = "done" /\ fx[t].result = "absoluteUrl"

\* one call returned an inline URL without a request while another, for a
\* remote URL, issued its one request and failed
C8_Witness ==
  \E t, u \in Tasks :
    /\ fx[t].ev = "inline" /\ fx[t].reqs = 0 /\ fx[t].result = "absoluteUrl"
    /\ fx[u].ev = "neterror" /\ fx[u].reqs = 1 /\ fx[u].result = Null

(***************************************************************************)
(* Properties of processCssUrls                                            *)
(***************************************************************************)

\* the URLs of urlMap
CssSucceeded == {cssOk[k] : k \in 1..Len(cssOk)}

\* the text made of the text between the references and, for the k-th
\* reference, the original text of the reference or, when new[k], its
\* inlined form
RECURSIVE Rebuilt(_, _, _, _, _)
Rebuilt(s, refs, new, k, i) ==
  IF k > Len(refs) THEN SubSeq(s, i, Len(s))
  ELSE SubSeq(s, i, refs[k].from - 1)
       \o (IF new[k] THEN Inlined(refs[k].url) ELSE SubSeq(s, refs[k].from, refs[k].to))
       \o Rebuilt(s, refs, new, k + 1, refs[k].to + 1)

\* C9: processCssUrls changes its input only at references whose fetch
\* succeeded: without url() or when every fetch fails the output is the input,
\* and every reference whose fetch failed is in the output as in the input
C9_FailedReferencesUntouched ==
  cssPc = "done" =>
    LET refs == MatchAll(cssIn, 1)
    IN  /\ refs = <<>> => cssOut = cssIn
        /\ cssOk = <<>> => cssOut = cssIn
        /\ \E new \in [1..Len(refs) -> BOOLEAN] :
             /\ \A k \in 1..Len(refs) : new[k] => refs[k].url \in CssSucceeded
             /\ cssOut = Rebuilt(cssIn, refs, new, 1, 1)

\* C10: after processCssUrls every reference whose URL is neither inline nor
\* fragment-only and whose fetch succeeded is in the form url("<inline
\* data>"), however it was written; the inline and the fragment-only
\* references are unchanged
C10_SucceededReferencesInlined ==
  cssPc = "done" =>
    LET refs == MatchAll(cssIn, 1)
        new == [k \in 1..Len(refs) |-> refs[k].url \in CssSucceeded]
    IN  cssOut = Rebuilt(cssIn, refs, new, 1, 1)

NoRepeat(q) == \A i, j \in 1..Len(q) : q[i] = q[j] => i = j

\* C11: within one call of processCssUrls every distinct referenced URL is
\* handed to fetchAsDataUrl at most once, however often it occurs in the
\* text, and every key of urlMap is set at most once, in whatever order the
\* fetches complete
C11_OneFetchPerUrl ==
  cssPc \in {"fetching", "done"} =>
    /\ NoRepeat(cssUrls)
    /\ NoRepeat(cssSets)
    /\ LET us == MatchedUrls(cssIn)
       IN  \A k \in 1..Len(us) :
             IsFetchable(us[k]) => \E i \in 1..Len(cssUrls) : cssUrls[i] = us[k]

\* a text with two references to one URL: one call, one urlMap.set
C11_Witness ==
  /\ cssPc = "done"
  /\ MatchedUrls(cssIn) = << <<"a">>, <<"a">> >>
  /\ cssUrls = << <<"a">> >>
  /\ cssSets = << <<"a">> >>

\* C12: the recursion of processStyleSheet over @import rules terminates on
\* every sheet graph, cyclic ones included: no rule of a sheet is read at a
\* depth greater than 5, and a call beyond that depth returns empty text
C12_ImportRecursionBounded ==
  /\ [](/\ \A d \in impRead : d <= MaxImportDepth
        /\ \A t \in impCut : t = <<>>
        /\ \A k \in 1..Len(impStack) :
             /\ impStack[k].depth = k - 1
             /\ impStack[k].depth > MaxImportDepth =>
                  impStack[k].at = 1 /\ impStack[k].text = <<>>
        /\ Len(impStack) <= MaxImportDepth + 2)
  /\ <>(impPc = "done")

\* a sheet that imports itself: the call beyond the bound returned '' and
\* the outermost call returned the rules read at the depths 0 to 5
C12_Witness ==
  /\ impPc = "done"
  /\ impGraph["A"] = <<"A", "rule">>
  /\ impCut = {<<>>}
  /\ impRead = 0..MaxImportDepth
  /\ Len(impOut) = MaxImportDepth + 1

(***************************************************************************)
(* Properties of the passes over the clone                                 *)
(***************************************************************************)

\* the forms of the original URL of an image: the src attribute as written,
\* and img.src, its absolute form
OriginalUrl == {"attr", "resolved"}

\* C15: for a clone image whose live counterpart cannot be re-encoded, one
\* fetch of the original source is made; when it returns null the image
\* task ends with the clone's src equal to the original URL, and the fetch
\* does not throw into the pass
C15_ImageFallback ==
  /\ [](task["img"] = "fetchLive" =>
          /\ fx["img"].calls = 1
          /\ fx["img"].state # "threw")
  /\ [][(/\ task["img"] \in {"fetchLive", "fetchDirect"}
         /\ task'["img"] = "fulfilled"
         /\ fx["img"].result = Null)
        => clone'.imgSrc \in OriginalUrl /\ clone'.imgSrc # Null]_vars

\* the live image was tainted or had no dimensions, its fetch failed, and
\* the clone image holds the absolute form of the original URL
C15_Witness ==
  /\ task["img"] = "fulfilled"
  /\ clone.exists
  /\ clone.imgSrc = "resolved"

\* the element of the clone that was cloned from, or made in place of, the
\* j-th element of the live document
CloneOfLive(j) == {k \in 1..Len(domDoc) : domDoc[k].origin = j}

AfterCanvasPass == domPc \in {"frames", "inject", "meta", "serialize", "done"}

AfterFramePass == domPc \in {"inject", "meta", "serialize", "done"}

AfterRemoveScripts == domPc \notin {"off", "clone", "scripts"}

\* C16: after the canvas pass every canvas of the clone whose live
\* counterpart can be read is replaced by an img made of that canvas, and
\* every canvas whose live counterpart is tainted is still there, unchanged;
\* a tainted canvas does not keep the others from being replaced
C16_CanvasPass ==
  AfterCanvasPass =>
    \A j \in 1..Len(domLive) :
      domLive[j].tag = "canvas" =>
        /\ Cardinality(CloneOfLive(j)) = 1
        /\ \A k \in CloneOfLive(j) :
             IF domLive[j].content = "readable"
               THEN /\ domDoc[k].tag = "img"
                    /\ Attr(domDoc[k], <<"src">>) = <<"data:", "pixels">>
               ELSE /\ domDoc[k].tag = "canvas"
                    /\ domDoc[k].attrs = domLive[j].attrs

\* a tainted canvas followed by a readable one: the first is kept, the
\* second replaced
C16_Witness ==
  /\ domPc = "frames"
  /\ Len(domLive) = 2
  /\ domLive[1].content = "tainted" /\ domLive[2].content = "readable"
  /\ domDoc[1].tag = "canvas"
  /\ domDoc[2].tag = "img" /\ domDoc[2].origin = 2

\* the length a width or height attribute denotes: a number is in pixels
LengthOf(v) == IF Len(v) = 1 THEN v \o <<"px">> ELSE v

\* the style of the block declares the dimension the frame had, if it had one
CarriesDimension(block, frame, prop) ==
  HasAttr(frame, <<prop>>) =>
    LET style == Attr(block, <<"style">>)
        decl == <<prop, ":">> \o LengthOf(Attr(frame, <<prop>>)) \o <<";">>
    IN  \E i \in 1..Len(style) : OccursAt(style, decl, i)

\* C17: after the frame pass no frame of the clone has a src; every frame
\* whose live content was readable has srcdoc and no src, and every other
\* frame is replaced by a block with the frame's width and height
C17_FramePass ==
  AfterFramePass =>
    /\ \A k \in 1..Len(domDoc) :
         domDoc[k].tag = "iframe" => ~HasAttr(domDoc[k], <<"src">>)
    /\ \A j \in 1..Len(domLive) :
         domLive[j].tag = "iframe" =>
           \A k \in CloneOfLive(j) :
             IF domLive[j].content # "none"
               THEN /\ domDoc[k].tag = "iframe"
                    /\ Attr(domDoc[k], <<"srcdoc">>) = FrameMarkup(domLive[j].content)
               ELSE /\ domDoc[k].tag = "div"
                    /\ CarriesDimension(domDoc[k], domLive[j], "width")
                    /\ CarriesDimension(domDoc[k], domLive[j], "height")

\* C18: after removeScripts the clone has no script and no noscript
\* element, no attribute whose name begins with 'on' and no href whose
\* value begins with 'javascript:'
C18_Sanitized ==
  AfterRemoveScripts =>
    \A k \in 1..Len(domDoc) :
      /\ domDoc[k].tag \notin {"script", "noscript"}
      /\ \A i \in 1..Len(domDoc[k].attrs) :
           LET name == domDoc[k].attrs[i][1]
               value == domDoc[k].attrs[i][2]
           IN  /\ name[1] # "on"
               /\ name = <<"href">> => value[1] # "javascript:"

\* a script element and a div with an onclick attribute: the script is gone
\* and the div has no attribute left
C18_Witness ==
  /\ domPc = "external"
  /\ Len(domLive) = 2
  /\ domLive[1].tag = "script"
  /\ HasAttr(domLive[2], <<"on", "click">>)
  /\ Len(domDoc) = 1
  /\ domDoc[1].tag = "div" /\ domDoc[1].attrs = <<>>

\* C19: the serialized document of a successful capture holds no script
\* markup and no event-handler attribute, also not inside what the image,
\* canvas and frame stages added after the sanitizer
C19_NoExecutableContent ==
  domPc = "done" =>
    \A i \in 1..(Len(domHtml) - 1) :
      /\ ~(domHtml[i] = "<" /\ domHtml[i + 1] \in {"script", "noscript"})
      /\ ~(domHtml[i] = " " /\ domHtml[i + 1] = "on")

\* the rel tokens of a style-sheet link and of the resource hints
SheetOrHintRels ==
  {"stylesheet", "preload", "prefetch", "modulepreload", "preconnect", "dns-prefetch"}

\* C20: the document of a successful capture has exactly one style element,
\* in the head and holding the aggregated style text; it has a charset
\* declaration, no base element and no style-sheet or resource-hint link
C20_AssembledDocument ==
  domPc = "done" =>
    /\ Cardinality({k \in 1..Len(domDoc) : domDoc[k].tag = "style"}) = 1
    /\ \A k \in 1..Len(domDoc) :
         domDoc[k].tag = "style" => domDoc[k].where = "head" /\ domDoc[k].text = AllCss
    /\ \E k \in 1..Len(domDoc) : domDoc[k].tag = "meta" /\ HasAttr(domDoc[k], <<"charset">>)
    /\ \A k \in 1..Len(domDoc) :
         /\ domDoc[k].tag # "base"
         /\ domDoc[k].tag = "link" =>
              \A i \in 1..Len(Attr(domDoc[k], <<"rel">>)) :
                Attr(domDoc[k], <<"rel">>)[i] \notin SheetOrHintRels

\* the canvas pass replaced the k-th element of the clone by an img
ReplacedByCanvasPass(k) ==
  /\ domPc = "canvas" /\ domPc' = "frames"
  /\ domDoc[k].tag = "canvas" /\ domDoc'[k].tag = "img"

\* C31: each canvas of the clone that the canvas pass replaces receives the
\* pixels and the computed style of the live canvas it was cloned from,
\* also when the live document gained or lost canvases while the capture
\* awaited its concurrent passes
C31_CanvasPairing ==
  [][\A k \in 1..Len(domDoc) :
       ReplacedByCanvasPass(k) => domBorn[domDoc'[k].origin] = domDoc[k].origin]_vars

\* the part of C31 that holds: on a live document that did not change, the
\* replaced canvas has the pixels of the canvas it was cloned from
CanvasPairingWhenStill ==
  [][\A k \in 1..Len(domDoc) :
       (ReplacedByCanvasPass(k) /\ domBorn = [j \in 1..Len(domLive) |-> j])
         => domDoc'[k].origin = domDoc[k].origin]_vars

(***************************************************************************)
(* Properties of getAllStylesheetCSS                                       *)
(***************************************************************************)

\* C13: when reading a sheet's rules is blocked, processStyleSheet makes one
\* fetch of the sheet's href and returns the fetched text resolved against
\* the href; without href, when the fetch fails, when the response is not a
\* success or when its text cannot be read, it returns ''; its promise is
\* never rejected
C13_BlockedSheetFallback ==
  \A k \in 1..Len(aggSlots) :
    LET slot == aggSlots[k]
        sh == aggSrc[slot.src]
    IN  (slot.via = "sheet" /\ sh.blocked) =>
          /\ slot.at \in {"rawfetch", "rawtext", "css", "fulfilled"}
          /\ slot.fetches = (IF sh.href THEN 1 ELSE 0)
          /\ slot.at = "fulfilled" =>
               slot.val = IF sh.href /\ slot.resp = "ok" /\ slot.body = "text"
                            THEN ResolveCss(slot.text, "@href")
                            ELSE <<>>

\* of two blocked sheets, one was fetched and resolved against its href and
\* the other, answered with a failure status, contributed ''
C13_Witness ==
  /\ aggPc = "done"
  /\ Len(aggSlots) = 2
  /\ aggSrc[1].blocked /\ aggSrc[2].blocked
  /\ aggSlots[1].resp = "notok" /\ aggSlots[1].val = <<>>
  /\ aggSlots[2].resp = "ok" /\ aggSlots[2].val = <<"f2", "@href">>

\* the resolved text of the sheet of the i-th source, and of the i-th source
\* as a style element ('' when it pushed no promise)
ContributionOf(i, via) ==
  LET ks == {k \in 1..Len(aggSlots) : aggSlots[k].src = i /\ aggSlots[k].via = via}
  IN  IF ks = {} THEN <<>> ELSE aggSlots[CHOOSE k \in ks : TRUE].val

\* the first k texts, the empty ones left out, with a line break between
\* two of them
RECURSIVE Concatenated(_, _)
Concatenated(texts, k) ==
  IF k = 0 THEN <<>>
  ELSE LET before == Concatenated(texts, k - 1)
       IN  IF texts[k] = <<>> THEN before
           ELSE IF before = <<>> THEN texts[k]
           ELSE before \o <<"\n">> \o texts[k]

\* C14: the aggregated style text is the resolved contributions of the
\* style sheets in document order, then of the style elements in document
\* order, the empty ones left out, whatever order they were resolved in
C14_AggregationInSourceOrder ==
  aggPc = "done" =>
    LET n == Len(aggSrc)
        texts == [i \in 1..n |-> ContributionOf(i, "sheet")]
                 \o [i \in 1..n |-> ContributionOf(i, "style")]
    IN  aggOut = Concatenated(texts, 2 * n)

\* a later promise settled before an earlier one; the link's sheet gave ''
\* and is left out, the style element's sheet and the style element follow
\* in that order
C14_Witness ==
  /\ aggPc = "done"
  /\ aggEarly
  /\ \E k \in 1..Len(aggSlots) : aggSlots[k].val = <<>>
  /\ aggSrc[1].kind = "link" /\ aggSrc[2].kind = "style"
  /\ aggOut = <<"r2", "@page", "\n", "t2", "@page">>

\* the entries of cssPromises that hold rules of the i-th source: the
\* processCssUrls passes over them, each fetching their url() references
PassesOver(i) ==
  {k \in 1..Len(aggSlots) : aggSlots[k].src = i /\ aggSlots[k].text # <<>>}

\* C32: no style rule of the live document is contributed to the aggregated
\* style text more than once: every style sheet and every style element
\* adds its resolved text a single time, and its url() references are
\* fetched by a single resolution pass
C32_ContributedOnce ==
  \A i \in 1..Len(aggSrc) :
    /\ Cardinality(PassesOver(i)) <= 1
    /\ aggPc = "done" =>
         Cardinality({k \in PassesOver(i) : aggSlots[k].val # <<>>}) <= 1

\* the part of C32 that holds: a link element's sheet is contributed once
LinksContributedOnce ==
  \A i \in 1..Len(aggSrc) : aggSrc[i].kind = "link" => Cardinality(PassesOver(i)) <= 1

(***************************************************************************)
(* Properties of the Transport Codec                                       *)
(***************************************************************************)

\* C21: for every text x, decompressHtml(compressString(x)) is x: what the
\* receiver decodes is the text the sender compressed, whatever the length
\* of the compressed bytes relative to the chunk of the encoding loop.
C21_RoundTrip ==
  zipPc = "received" => zipOut = [ok |-> TRUE, text |-> zipIn, error |-> ""]

\* the byte-to-text encoding and its decoding alone are inverse: the
\* receiver's bytes are the sender's compressed bytes
ChunkedEncodingInverse ==
  zipPc = "received" => Atob(zipWire) = [ok |-> TRUE, binary |-> Gzip(TextEncode(zipIn, 1))]

(***************************************************************************)
(* Properties of the Snapshot Store                                        *)
(***************************************************************************)

\* expiresIn is <integer><unit>
InGrammar(e) == e.type = "string" /\ RegexMatches(e.chars)

\* n times 60 000, 3 600 000 or 86 400 000 milliseconds
DurationMs(e) ==
  LET unit == e.chars[Len(e.chars)]
      n == ParseInt(SubSeq(e.chars, 1, Len(e.chars) - 1))
  IN IF unit = "m" THEN n * 60000
     ELSE IF unit = "h" THEN n * 3600000
     ELSE n * 86400000

\* the document a body carries: the text that was compressed, or the html
UploadedDocument(body) ==
  IF body.compressed
    THEN CHOOSE x \in {<<60, 112, 62>>, <<97>>} : compressString(x) = body.html.seq
    ELSE body.html.seq

\* an upload the store has to accept: well-formed, with html that can be
\* read, within the ceiling
Acceptable(req) ==
  /\ ~(req.contentLength.present /\ req.contentLength.value > MAX_SIZE)
  /\ req.body.json
  /\ req.body.html.form # "none"
  /\ req.body.html.bytes <= MAX_SIZE
  /\ req.body.compressed => Decompressed(req.body.html).ok

\* this step ends a call of handleUpload
UploadAnswered == upDone'.n # upDone.n

\* the last upload got an identifier no other upload has had
Tracked == lastOk # NoTracked /\ lastOk.fresh

\* fetch k after the last upload came after the time t
Late(k, t) == served[k].at > t

C23_NoExpiration ==
  /\ [][(UploadAnswered /\ Acceptable(upReq.req)
           /\ ~InGrammar(upReq.req.body.expiresIn)) =>
          /\ upReq.pc = "put"
          /\ upDone'.status = 200 =>
               /\ upDone'.expiresAt = NullStamp
               /\ snapshots'[upDone'.id].expiresAt = NullStamp]_vars
  /\ []((Tracked /\ ~InGrammar(lastOk.body.expiresIn)) =>
          /\ snapshots[lastOk.id].present
          /\ \A k \in 1..Len(served) : served[k].status = 200)

\* C24: an upload whose declared size or whose html exceeds the ceiling is
\* answered with 413 and nothing is stored, also when no size is declared.
C24_OversizeRejected ==
  [][(UploadAnswered
        /\ \/ upReq.req.contentLength.present
                /\ upReq.req.contentLength.value > MAX_SIZE
           \/ upReq.req.body.html.bytes > MAX_SIZE) =>
       /\ upDone'.status = 413
       /\ snapshots' = snapshots]_vars

\* C25: an upload answered with a status other than 200 leaves the store as
\* it was, a decompression failure is answered with a 4xx that carries a
\* message, and an upload answered with 200 adds one entry, the uploaded
\* document, under the returned id; no other step of an upload writes.
C25_PersistsOnlyOnSuccess ==
  /\ [][(UploadAnswered /\ upDone'.status # 200) => snapshots' = snapshots]_vars
  /\ [][(UploadAnswered /\ upDone'.status = 200) =>
          /\ upDone'.id \in Ids
          /\ snapshots'[upDone'.id].present
          /\ snapshots'[upDone'.id].body = UploadedDocument(upReq.req.body)
          /\ \A i \in Ids \ {upDone'.id} : snapshots'[i] = snapshots[i]]_vars
  /\ [][(upReq' # upReq /\ snapshots' # snapshots) =>
          UploadAnswered /\ upDone'.status = 200]_vars
  /\ [][(UploadAnswered /\ upReq.req.body.json /\ upReq.req.body.compressed
           /\ upReq.req.body.html.form # "none"
           /\ ~(upReq.req.contentLength.present
                  /\ upReq.req.contentLength.value > MAX_SIZE)
           /\ ~Decompressed(upReq.req.body.html).ok) =>
          /\ upDone'.status >= 400
          /\ upDone'.status <= 499
          /\ upDone'.error # ""]_vars

\* a payload that is no gzip was refused while the store held a document
C25_Witness ==
  /\ upDone.status = 400
  /\ upDone.error = "Failed to decompress: TypeError"
  /\ snapshots["id1"].present

\* C30: for every expiresIn <n><unit>, n in decimal digits, the upload is
\* accepted and the stored expiresAt is the server time at upload plus n
\* times the milliseconds of the unit; no n makes the upload fail.
C30_ExpirationArithmetic ==
  [][(UploadAnswered /\ Acceptable(upReq.req)
        /\ InGrammar(upReq.req.body.expiresIn)) =>
       /\ upReq.pc = "put"
       /\ upDone'.status = 200 =>
            /\ upDone'.expiresAt
                 = Stamp(upReq.at + DurationMs(upReq.req.body.expiresIn))
            /\ snapshots'[upDone'.id].expiresAt = upDone'.expiresAt]_vars

(***************************************************************************)
(* Properties of the popup and of handleCapture                            *)
(***************************************************************************)

\* C26: the upload request is sent only after a capture result with
\* success = true; on an internal page the popup sends no capture request;
\* when the script yields no result or a failed result no upload request is
\* sent and the call reports a single error message.
C26_FatalCaptureAbortsBeforeUpload ==
  \A k \in 1..Len(runs) :
    /\ msgs[k].uploads > 0 => msgs[k].result = "success"
    /\ msgs[k].uploads <= 1
    /\ runs[k].tab = "internal" => msgs[k].pc = "none"
    /\ (runs[k].tab = "internal" /\ runs[k].pc = "done") => runs[k].errors = 1
    /\ (msgs[k].result \in {"rejected", "empty", "noresult", "failed"}) =>
         /\ msgs[k].uploads = 0
         /\ runs[k].errors <= 1
         /\ runs[k].pc = "done" => runs[k].errors = 1

\* a capture whose script returned {success: false} ended with its error
\* shown, and one on an internal page ended too
C26_Witness ==
  /\ Len(runs) = 2
  /\ runs[1].pc = "done" /\ msgs[1].result = "failed" /\ runs[1].errors = 1
  /\ runs[2].pc = "done" /\ runs[2].tab = "internal"

\* the calls of captureCurrentPage that have not ended
Capturing == {k \in 1..Len(runs) : runs[k].pc # "done"}

\* C27: no two captures run concurrently: a capture request is sent only
\* when no earlier one is in flight; the capture button is disabled from the
\* start of a capture to its end, and the error view with the retry button
\* is visible only when no capture runs.
C27_NoConcurrentCaptures ==
  /\ Cardinality(Capturing) <= 1
  /\ Cardinality({k \in 1..Len(msgs) : msgs[k].pc \notin {"none", "answered"}}) <= 1
  /\ Capturing # {} => disabled
  /\ view \in {"error", "success"} => Capturing = {}

\* a second capture runs, started by the retry button, while the history
\* view was opened over it
C27_Witness ==
  /\ Len(runs) = 2
  /\ runs[1].errors = 1
  /\ runs[2].pc = "sent"
  /\ view = "history"

\* message k is answered once at most, with the store's response exactly
\* when script, upload and the reading of the response all succeeded
AnsweredProperly(k) ==
  /\ msgs[k].answers <= 1
  /\ msgs[k].pc = "answered" =>
       /\ msgs[k].answers = 1
       /\ msgs[k].answer \in {"response", "error"}
       /\ msgs[k].answer = "response" <=>
            (msgs[k].result = "success" /\ msgs[k].upload = "ok")

\* the listener received message k and has not called sendResponse for it
Received(k) == IF k \in DOMAIN msgs THEN msgs[k].pc \notin {"none", "answered"} ELSE FALSE

\* the listener called sendResponse for message k
Answered(k) == IF k \in DOMAIN msgs THEN msgs[k].pc = "answered" ELSE FALSE

\* C29: every 'capture' message the listener receives is answered exactly
\* once, with the store's response or with a structured error; none is
\* left without a response and none is answered twice.
C29_AnsweredExactlyOnce ==
  /\ [](\A k \in 1..Len(msgs) : AnsweredProperly(k))
  /\ \A k \in 1..MaxCaptures : Received(k) ~> Answered(k)

\* the part of C29 that holds: no message is answered twice or wrongly
NeverAnsweredTwice == \A k \in 1..Len(msgs) : AnsweredProperly(k)

(***************************************************************************)
(* Properties of the concurrent passes                                     *)
(***************************************************************************)

\* the locations that two different tasks wrote
Contended ==
  {w \in 1..Len(picWrites) :
     \E v \in 1..Len(picWrites) :
       /\ picWrites[v][1] = picWrites[w][1]
       /\ picWrites[v][2] = picWrites[w][2]
       /\ picWrites[v][3] = picWrites[w][3]
       /\ picWrites[v][4] # picWrites[w][4]}

\* C28: the concurrent tasks of the passes share no mutable state: no
\* location, in the clone or in the live document, is written by two
\* different tasks, including when several clone images have the same
\* source.
C28_NoSharedLocation == Contended = {}

\* the part of C28 that holds: no location of the clone is written by two
\* different tasks
CloneWritesDisjoint == \A w \in Contended : picWrites[w][1] # "clone"

====
